---- MODULE Spec2Model ----
(***************************************************************************)
(* Hermod: the topic router of internal/router/router.go.                  *)
(*                                                                         *)
(* A Router owns one routeHandler per configured route (a buffered channel *)
(* and a pool of worker goroutines) and a passthrough fallback.  Dispatch  *)
(* runs on the broker callback, Close on the main goroutine, every worker  *)
(* on a goroutine of its own; the storage sink is an external collaborator *)
(* whose InsertIntoTable may succeed or fail.                              *)
(***************************************************************************)
EXTENDS Integers, Sequences, FiniteSets, TLC

VARIABLES
    routes,      \* Router.routes[i].route, after newRouteHandler's defaults
    queue,       \* routeHandler.msgChan: the buffered messages of each route
    chanClosed,  \* whether close(handler.msgChan) has run, per route
    ctxDone,     \* whether Router.cancel has run (r.ctx.Done() is closed)
    closer,      \* the goroutine running Router.Close: its position
    wk,          \* every worker goroutine: position, message, records, index
    disp,        \* the goroutine running Router.Dispatch: its position
    calls,       \* history: every Dispatch call, its route and its outcome
    sink,        \* history: the Storage.InsertIntoTable calls of each caller,
                 \* in the order it made them
    taken,       \* history: <<message time, worker>> for every channel receive
    procs,       \* history: worker.process returns, message time -> "ok"/"err"
    crashed,     \* a goroutine panicked: the process is gone
    eval,        \* a call of one of the package's pure functions on its own:
                 \* the function, its arguments and, once made, its result
    pipeline,    \* the legacy Pipeline: its Transformer (mutex, interpreter
                 \* stack), its Storage and the calls of Storage.Insert
    gor,         \* the goroutines calling Pipeline.Process: position, message,
                 \* data, and what Transform was given and gave back
    ctor         \* the goroutine running router.New: its position, the routes
                 \* it was given, the route and worker it is at, its error

vars == <<routes, queue, chanClosed, ctxDone, closer, wk, disp, calls, sink,
          taken, procs, crashed, eval, pipeline, gor, ctor>>

-----------------------------------------------------------------------------
(* Bounds of the model.                                                    *)

\* Dispatch calls made on a router.
MaxMsgs == 2

\* Levels of the filters and topics topicMatches is called on.
MaxLevels == 3

-----------------------------------------------------------------------------
(* Values.                                                                 *)

\* Go values stored in a column map (map[string]interface{}).
GoString(s) == [gt |-> "string", s |-> s]
GoInt(n)    == [gt |-> "int", n |-> n]
GoFloat(n)  == [gt |-> "float64", f |-> n]
GoBool(b)   == [gt |-> "bool", b |-> b]
GoTime(t)   == [gt |-> "time", t |-> t]
GoJSON(j)   == [gt |-> "json", j |-> j]

\* Lua values a script puts in a columns table.
LString(s) == [lt |-> "LString", s |-> s]
LNumber(n) == [lt |-> "LNumber", n |-> n]
LBool(b)   == [lt |-> "LBool", b |-> b]

\* msg.Time.Format(time.RFC3339Nano): the text of an instant.
FormatRFC3339Nano(t) == <<"rfc3339", t>>

\* Restriction of a map to some of its keys.
Restrict(f, S) == [k \in (DOMAIN f) \cap S |-> f[k]]

\* The payloads the broker delivers, as text.
Payloads == {"hello", "{\"v\":1.5}"}

\* The nil interface value: what JSON null decodes to.
GoNil == [gt |-> "nil"]

\* encoding/json.Unmarshal on a payload: whether it parses, and the value.
jsonUnmarshal(p) ==
    IF p = "{\"v\":1.5}" THEN [ok |-> TRUE, val |-> [v |-> GoFloat(15)]]
    ELSE IF p = "null" THEN [ok |-> TRUE, val |-> GoNil]
    ELSE [ok |-> FALSE, val |-> <<>>]

\* The topics the broker delivers, split on "/".
Topics == {<<"a", "b">>, <<"a", "b", "c">>, <<"x", "y">>}

\* The deliveries of the broker: a topic and the payload published on it.
Deliveries ==
    { <<(<<"a", "b">>), "{\"v\":1.5}">>,
      <<(<<"a", "b", "c">>), "hello">>,
      <<(<<"x", "y">>), "{\"v\":1.5}">> }

-----------------------------------------------------------------------------
(* Identifiers.  A name is known by its spelling, one class per character: *)
(* "L" a letter, "D" a digit, "U" the underscore, "X" anything else.       *)

Spelling(name) ==
    CASE name = ""            -> <<>>
      [] name = "bad-col"     -> <<"L", "L", "L", "X", "L", "L", "L">>
      [] name = "bad name"    -> <<"L", "L", "L", "X", "L", "L", "L", "L">>
      [] name = "iot_raw"     -> <<"L", "L", "L", "U", "L", "L", "L">>
      [] name = "iot_data"    -> <<"L", "L", "L", "U", "L", "L", "L", "L">>
      [] name = "legacy_raw"  -> <<"L", "L", "L", "L", "L", "L", "U", "L", "L", "L">>
      [] name = "sensor_data" -> <<"L", "L", "L", "L", "L", "L", "U", "L", "L", "L", "L">>
      [] name = "events"      -> <<"L", "L", "L", "L", "L", "L">>
      [] name = "time"        -> <<"L", "L", "L", "L">>
      [] name = "value"       -> <<"L", "L", "L", "L", "L">>
      [] name = "event"       -> <<"L", "L", "L", "L", "L">>
      [] name = "bogus"       -> <<"L", "L", "L", "L", "L">>
      [] name = "topic"       -> <<"L", "L", "L", "L", "L">>
      [] name = "payload"     -> <<"L", "L", "L", "L", "L", "L", "L">>
      [] name = "_id"         -> <<"U", "L", "L">>
      [] name = "1st"         -> <<"D", "L", "L">>
      [] name = "v"           -> <<"L">>
      [] name = "qos"         -> <<"L", "L", "L">>
      [] name = "retain"      -> <<"L", "L", "L", "L", "L", "L">>
      [] name = "raw"         -> <<"L", "L", "L">>
      [] name = "json"        -> <<"L", "L", "L", "L">>
      [] name = "processed"   -> <<"L", "L", "L", "L", "L", "L", "L", "L", "L">>

\* validIdentifier = regexp.MustCompile(`^[A-Za-z0-9_]+$`)
validIdentifier(name) ==
    /\ Len(Spelling(name)) > 0
    /\ \A i \in 1..Len(Spelling(name)) : Spelling(name)[i] \in {"L", "D", "U"}

-----------------------------------------------------------------------------
(* topicMatches, on filters and topics already split on "/".               *)

RECURSIVE matchLevels(_, _, _)
matchLevels(fs, ts, i) ==
    IF i > Len(fs) THEN Len(ts) = Len(fs)
    ELSE IF i > Len(ts) THEN fs[i] = "#" /\ i = Len(fs)
    ELSE IF fs[i] = "#" THEN i = Len(fs)
    ELSE IF fs[i] = "+" THEN matchLevels(fs, ts, i + 1)
    ELSE IF fs[i] # ts[i] THEN FALSE
    ELSE matchLevels(fs, ts, i + 1)

\* Faulty variant: the levels of the topic beyond the filter's are ignored.
topicMatchesPrefix(filter, topic) ==
    IF filter = topic \/ filter = <<"#">> THEN TRUE
    ELSE matchLevels(filter,
                     IF Len(topic) > Len(filter)
                     THEN SubSeq(topic, 1, Len(filter)) ELSE topic, 1)

\* Faulty variant: a topic shorter than the filter never matches.
topicMatchesHashNeedsLevel(filter, topic) ==
    IF filter = topic \/ filter = <<"#">> THEN TRUE
    ELSE Len(topic) >= Len(filter) /\ matchLevels(filter, topic, 1)

topicMatches(filter, topic) ==
    IF filter = topic \/ filter = <<"#">> THEN TRUE
    ELSE matchLevels(filter, topic, 1)

-----------------------------------------------------------------------------
(* Messages and the passthrough record.                                    *)

\* The router.Message the broker callback of cmd/hermod builds.
Message(topic, payload, time) ==
    [Topic |-> topic, Payload |-> payload, QoS |-> 1, Retain |-> FALSE,
     Time |-> time]

\* Faulty variant: the json column is always there, nil for other payloads.
buildPassthroughRecordNullJSON(msg) ==
    LET parsed == jsonUnmarshal(msg.Payload)
    IN  [time   |-> GoTime(msg.Time),
         topic  |-> GoString(msg.Topic),
         qos    |-> GoInt(msg.QoS),
         retain |-> GoBool(msg.Retain),
         raw    |-> GoString(msg.Payload),
         json   |-> IF parsed.ok THEN GoJSON(parsed.val) ELSE GoNil]

buildPassthroughRecord(msg) ==
    LET record == [time   |-> GoTime(msg.Time),
                   topic  |-> GoString(msg.Topic),
                   qos    |-> GoInt(msg.QoS),
                   retain |-> GoBool(msg.Retain),
                   raw    |-> GoString(msg.Payload)]
        parsed == jsonUnmarshal(msg.Payload)
    IN  IF parsed.ok THEN record @@ [json |-> GoJSON(parsed.val)] ELSE record

-----------------------------------------------------------------------------
(* Scripts.  A script is known by its path; what it declares and what its  *)
(* transform may return are listed here.  "rich.lua" returns every shape   *)
(* of result the router has to deal with, "t.lua" only well-formed ones.   *)

\* The columns table of a record that has none.
NoColumns == [k \in {} |-> 0]

\* Elements of the array a transform returns.
LRecord(t, cols) ==
    [isTable |-> TRUE, table |-> t, hasColumns |-> TRUE, columns |-> cols]
LRecordNoColumns(t) ==
    [isTable |-> TRUE, table |-> t, hasColumns |-> FALSE, columns |-> NoColumns]
LNotATable ==
    [isTable |-> FALSE, table |-> "", hasColumns |-> FALSE, columns |-> NoColumns]

\* What a protected call of transform gives back.
LRaise       == [kind |-> "raise", arr |-> <<>>]
LNonTable    == [kind |-> "nontable", arr |-> <<>>]
LArray(arr)  == [kind |-> "table", arr |-> arr]

\* No call of transform has returned to the worker.
NoResult == [kind |-> "none", arr |-> <<>>]

\* The global `schema.tables` of a script: table -> column -> SQL type.
ScriptSchemaDecl(script) ==
    IF script \in {"rich.lua", "t.lua"}
    THEN [sensor_data |-> [time |-> "timestamptz", value |-> "double precision"],
          events      |-> [time |-> "timestamptz", event |-> "text"]]
    ELSE NoColumns

\* schema.LoadFromLuaScript: the declared tables and columns with valid names.
LoadFromLuaScript(script) ==
    LET decl == ScriptSchemaDecl(script)
    IN  [t \in {n \in DOMAIN decl : validIdentifier(n)} |->
            Restrict(decl[t], {c \in DOMAIN decl[t] : validIdentifier(c)})]

\* Faulty variant: every declared column has to be in the record.
ValidateRecordWantsAll(tableSchema, columns) ==
    DOMAIN columns = DOMAIN tableSchema

\* TableSchema.ValidateRecord: nil (TRUE) iff every column is declared.
ValidateRecord(tableSchema, columns) ==
    \A colName \in DOMAIN columns : colName \in DOMAIN tableSchema

\* Whether the script defines a global function transform.
DefinesTransform(script) == script \in {"rich.lua", "t.lua"}

\* The values transform(msg) may return, per script; a script without the
\* function is never called.
TransformResults(script, msg) ==
    LET ts    == LString(FormatRFC3339Nano(msg.Time))
        good  == LRecord("sensor_data", [time |-> ts, value |-> LNumber(42)])
        event == LRecord("events", [time |-> ts, event |-> LString("alert")])
    IN  IF ~DefinesTransform(script) THEN {NoResult}
        ELSE IF script = "rich.lua" THEN
            { LRaise,
              LNonTable,
              LArray(<<>>),
              LArray(<<good>>),
              LArray(<<LRecord("sensor_data",
                        [time |-> ts, value |-> LNumber(42),
                         bogus |-> LString("should fail")])>>),
              LArray(<<good, LRecord("sensor_data",
                        [time |-> ts, bogus |-> LString("should fail")])>>),
              LArray(<<good, event>>),
              LArray(<<LRecord("", [time |-> ts, value |-> LNumber(99)])>>),
              LArray(<<good, LNotATable>>),
              LArray(<<good, LRecordNoColumns("events")>>),
              LArray(<<LRecord("sensor_data", ("bad-col" :> LBool(TRUE)))>>),
              LArray(<<LRecord("bad name", [time |-> ts])>>) }
        ELSE { LRaise, LArray(<<good>>), LArray(<<good, event>>) }

\* lvalueToInterface, on the scalars the scripts emit.
lvalueToInterface(lv) ==
    CASE lv.lt = "LString" -> GoString(lv.s)
      [] lv.lt = "LNumber" -> GoFloat(lv.n)
      [] lv.lt = "LBool"   -> GoBool(lv.b)

\* One element of the returned array as a Record: the table name if it is a
\* string, the columns whose names are valid identifiers.
parseRecord(recTable) ==
    [Table   |-> recTable.table,
     Columns |-> [c \in {k \in DOMAIN recTable.columns : validIdentifier(k)} |->
                    lvalueToInterface(recTable.columns[c])]]

\* Faulty variant: the records before the first malformed element are
\* returned for insertion.
parseRecordsUpToFirstBad(arr) ==
    LET bad == {i \in 1..Len(arr) : ~arr[i].isTable \/ ~arr[i].hasColumns}
        n   == IF bad = {} THEN Len(arr)
               ELSE (CHOOSE i \in bad : \A j \in bad : i <= j) - 1
    IN  IF n = 0 THEN [ok |-> FALSE, records |-> <<>>]
        ELSE [ok |-> TRUE, records |-> [i \in 1..n |-> parseRecord(arr[i])]]

\* worker.parseRecords: the records, or an error.
parseRecords(arr) ==
    IF Len(arr) = 0 THEN [ok |-> FALSE, records |-> <<>>]
    ELSE IF \E i \in 1..Len(arr) : ~arr[i].isTable \/ ~arr[i].hasColumns
    THEN [ok |-> FALSE, records |-> <<>>]
    ELSE [ok |-> TRUE, records |-> [i \in 1..Len(arr) |-> parseRecord(arr[i])]]

\* worker.executeTransform, given what the call of transform returned.
executeTransform(script, result) ==
    IF ~DefinesTransform(script) THEN [ok |-> FALSE, records |-> <<>>]
    ELSE IF result.kind # "table" THEN [ok |-> FALSE, records |-> <<>>]
    ELSE parseRecords(result.arr)

-----------------------------------------------------------------------------
(* Construction: router.New on one of two route lists.                     *)

\* Several overlapping routes: a pool of script workers and a passthrough
\* route.
RoutingRoutes ==
    << [Filter |-> <<"a", "+">>, Script |-> "t.lua", Workers |-> 2,
        QueueSize |-> 1, Table |-> "sensor_data"],
       [Filter |-> <<"a", "#">>, Script |-> "", Workers |-> 1,
        QueueSize |-> 2, Table |-> ""] >>

\* One script route whose script returns every shape of result, and one
\* passthrough route with a table of its own.
ScriptRoutes ==
    << [Filter |-> <<"a", "+">>, Script |-> "rich.lua", Workers |-> 0,
        QueueSize |-> 1, Table |-> "sensor_data"],
       [Filter |-> <<"a", "+", "c">>, Script |-> "", Workers |-> 1,
        QueueSize |-> 2, Table |-> "legacy_raw"] >>

\* One route with every default, whose script loads but defines no global
\* function transform.
PlainRoutes ==
    << [Filter |-> <<"a", "+">>, Script |-> "plain.lua", Workers |-> 0,
        QueueSize |-> 0, Table |-> ""] >>

\* Router.newRouteHandler: the defaults it sets on a route.
newRouteHandler(route) ==
    [route EXCEPT
        !.Workers   = IF route.Workers <= 0 THEN 1 ELSE route.Workers,
        !.QueueSize = IF route.QueueSize <= 0 THEN 100 ELSE route.QueueSize,
        !.Table     = IF route.Table = "" THEN "iot_data" ELSE route.Table]

\* router.New: one handler per route, in declaration order.
New(rs) == [i \in 1..Len(rs) |-> newRouteHandler(rs[i])]

\* L.DoFile(scriptPath) fails in newWorker: the file is not there.
LoadFails(script) == script = "missing.lua"

\* Router.newRouteHandler returns an error: the table name, after the
\* default is set, is not a valid identifier, or a worker's script does
\* not load.
newRouteHandlerFails(route) ==
    \/ ~validIdentifier(newRouteHandler(route).Table)
    \/ route.Script # "" /\ LoadFails(route.Script)

\* router.New as its caller sees it: an error and no router, or the router
\* with its handlers.
NewReturns(rs) ==
    IF \E i \in 1..Len(rs) : newRouteHandlerFails(rs[i])
    THEN [err |-> TRUE, routes |-> <<>>]
    ELSE [err |-> FALSE, routes |-> New(rs)]

\* The worker goroutines New starts: <<route, worker id>>.
WorkerIds ==
    UNION { {<<r, i>> : i \in 0..(routes[r].Workers - 1)} : r \in 1..Len(routes) }

\* The passthrough fallback, where a worker id is expected.
Fallback == <<0, 0>>

NoMsg == Message(<<>>, "", 0)

\* Faulty variant: the workers of a route are handed one Lua state.
newWorkerSharedState(w, route) ==
    [pc |-> "recv", msg |-> NoMsg, res |-> NoResult, recs |-> <<>>, idx |-> 0,
     state |-> IF route.Script # "" THEN "open" ELSE "nil",
     lua |-> IF route.Script # "" THEN <<w[1], 0>> ELSE Fallback]

\* newWorker: a Lua state only if the route has a script, and then one that
\* lua.NewState() makes for this worker (it is named after the worker).
newWorker(w, route) ==
    [pc |-> "recv", msg |-> NoMsg, res |-> NoResult, recs |-> <<>>, idx |-> 0,
     state |-> IF route.Script # "" THEN "open" ELSE "nil",
     lua |-> IF route.Script # "" THEN w ELSE Fallback]

\* router.New has returned the router for the routes rs.
Built(rs) ==
    [pc |-> "returned", cfg |-> rs, i |-> Len(rs) + 1, j |-> 0, err |-> FALSE,
     why |-> ""]

InitWith(rs) ==
    /\ ctor = Built(rs)
    /\ routes = New(rs)
    /\ queue = [r \in 1..Len(rs) |-> <<>>]
    /\ chanClosed = [r \in 1..Len(rs) |-> FALSE]
    /\ ctxDone = FALSE
    /\ closer = [pc |-> "idle", i |-> 1]
    /\ wk = [w \in WorkerIds |-> newWorker(w, routes[w[1]])]
    /\ disp = [pc |-> "idle"]
    /\ calls = <<>>
    /\ sink = [p \in WorkerIds \cup {Fallback} |-> <<>>]
    /\ taken = {}
    /\ procs = {}
    /\ crashed = FALSE

\* No pure function is being called on its own.
NoEval == [fn |-> "none", args |-> <<>>, done |-> TRUE, ret |-> <<>>]

\* No legacy pipeline has been built.
NoPipeline == [built |-> FALSE]
NoLegacy == pipeline = NoPipeline /\ gor = <<>>

Init ==
    /\ \E rs \in {RoutingRoutes, ScriptRoutes, PlainRoutes} : InitWith(rs)
    /\ eval = NoEval
    /\ NoLegacy

-----------------------------------------------------------------------------
(* The sink.                                                               *)

\* A call of Storage.InsertIntoTable(ctx, table, data) made for message msg.
InsertCall(ctx, table, data, msg, by) ==
    [ctx |-> ctx, table |-> table, cols |-> data, msg |-> msg.Time, by |-> by]

\* The sink after one more call.
Inserted(call) == [sink EXCEPT ![call.by] = Append(@, call)]

-----------------------------------------------------------------------------
(* Router.Dispatch.                                                        *)

\* Faulty variant: the last matching route instead of the first.
LastMatch(topic) ==
    LET M == {r \in 1..Len(routes) : topicMatches(routes[r].Filter, topic)}
    IN  IF M = {} THEN 0 ELSE CHOOSE r \in M : \A q \in M : r >= q

\* The first route, in declaration order, whose filter matches; 0 if none.
FirstMatch(topic) ==
    LET M == {r \in 1..Len(routes) : topicMatches(routes[r].Filter, topic)}
    IN  IF M = {} THEN 0 ELSE CHOOSE r \in M : \A q \in M : r <= q

\* Faulty variant: a select without default case on a channel that always has room.
SelectOutcomesUnbounded(r) ==
    (IF chanClosed[r] THEN {"panic"} ELSE {"ok"})
        \cup (IF ctxDone THEN {"cancelled"} ELSE {})

\* The outcomes of the select on the route's channel: a send that can go
\* ahead (on a closed channel it panics), the cancelled context, and the
\* default case when neither is ready.
SelectOutcomes(r) ==
    LET send == IF chanClosed[r] THEN {"panic"}
                ELSE IF Len(queue[r]) < routes[r].QueueSize THEN {"ok"}
                ELSE {}
        done == IF ctxDone THEN {"cancelled"} ELSE {}
    IN  IF send \cup done = {} THEN {"queue_full"} ELSE send \cup done

\* A Dispatch call as the history keeps it: the message, the route chosen
\* (0 for the fallback) and the outcome.
Call(msg, r, outcome) == [msg |-> msg, route |-> r, outcome |-> outcome]

\* Dispatch of a message whose topic matches a route: the whole call.
DispatchRoute(msg, r) ==
    \E outcome \in SelectOutcomes(r) :
        /\ calls' = Append(calls, Call(msg, r, outcome))
        /\ queue' = IF outcome = "ok"
                    THEN [queue EXCEPT ![r] = Append(@, msg)] ELSE queue
        /\ crashed' = (outcome = "panic")
        /\ UNCHANGED <<disp, sink>>

\* Faulty variant: the fallback writes to the default table of the routes.
DispatchPassthroughDefaultTable(msg) ==
    /\ calls' = Append(calls, Call(msg, 0, "pending"))
    /\ sink' = Inserted(InsertCall("background", "iot_data",
                                 buildPassthroughRecord(msg), msg, Fallback))
    /\ disp' = [pc |-> "insert"]
    /\ UNCHANGED <<queue, crashed>>

\* Dispatch of a message no route matches: passthroughHandler.handle calls
\* the sink and waits for it.
DispatchPassthrough(msg) ==
    /\ calls' = Append(calls, Call(msg, 0, "pending"))
    /\ sink' = Inserted(InsertCall("background", "iot_raw",
                                 buildPassthroughRecord(msg), msg, Fallback))
    /\ disp' = [pc |-> "insert"]
    /\ UNCHANGED <<queue, crashed>>

Dispatch ==
    /\ ~crashed
    /\ disp.pc = "idle"
    /\ Len(calls) < MaxMsgs
    /\ \E d \in Deliveries :
         LET msg == Message(d[1], d[2], Len(calls) + 1)
             r   == FirstMatch(d[1])
         IN  IF r # 0 THEN DispatchRoute(msg, r) ELSE DispatchPassthrough(msg)
    /\ UNCHANGED <<ctor, eval, pipeline, gor, routes, chanClosed, ctxDone, closer,
                   wk, taken, procs>>

\* The sink returns to passthroughHandler.handle, and Dispatch returns.
DispatchReturn ==
    /\ ~crashed
    /\ disp.pc = "insert"
    /\ \E err \in BOOLEAN :
         calls' = [calls EXCEPT ![Len(calls)].outcome =
                        IF err THEN "insert_failed" ELSE "ok"]
    /\ disp' = [pc |-> "idle"]
    /\ UNCHANGED <<ctor, eval, pipeline, gor, routes, queue, chanClosed, ctxDone,
                   closer, wk, sink, taken, procs, crashed>>

-----------------------------------------------------------------------------
(* worker.run and worker.process.                                          *)

\* Faulty variant: a receive loop that returns neither on the cancelled context nor
\* on the closed channel.
WorkerNeverExits(w) ==
    /\ ~crashed
    /\ wk[w].pc = "recv"
    /\ FALSE
    /\ UNCHANGED vars

\* The select of worker.run takes the case of the cancelled context, or the
\* receive on a closed and empty channel: the worker returns and its
\* deferred calls run, closing its Lua state and counting it in the wait
\* group.
WorkerExit(w) ==
    /\ ~crashed
    /\ wk[w].pc = "recv"
    /\ ctxDone \/ (chanClosed[w[1]] /\ queue[w[1]] = <<>>)
    /\ wk' = [wk EXCEPT ![w].pc = "exited",
                        ![w].state = IF @ = "open" THEN "closed" ELSE @]
    /\ UNCHANGED <<ctor, eval, pipeline, gor, routes, queue, chanClosed, ctxDone,
                   closer, disp, calls, sink, taken, procs, crashed>>

\* Faulty variant: the receive takes the message sent last.
WorkerReceiveLast(w) ==
    /\ ~crashed
    /\ wk[w].pc = "recv"
    /\ queue[w[1]] # <<>>
    /\ LET q == queue[w[1]]
       IN  /\ wk' = [wk EXCEPT ![w].pc = "process", ![w].msg = q[Len(q)],
                               ![w].recs = <<>>, ![w].idx = 0]
           /\ queue' = [queue EXCEPT ![w[1]] = SubSeq(q, 1, Len(q) - 1)]
           /\ taken' = taken \cup {<<q[Len(q)].Time, w>>}
    /\ UNCHANGED <<ctor, eval, pipeline, gor, routes, chanClosed, ctxDone, closer,
                   disp, calls, sink, procs, crashed>>

\* Faulty variant: the receive hands over the first message and leaves it in
\* the channel.
WorkerReceiveKeepsQueued(w) ==
    /\ ~crashed
    /\ wk[w].pc = "recv"
    /\ queue[w[1]] # <<>>
    /\ wk' = [wk EXCEPT ![w].pc = "process", ![w].msg = Head(queue[w[1]]),
                        ![w].recs = <<>>, ![w].idx = 0]
    /\ taken' = taken \cup {<<Head(queue[w[1]]).Time, w>>}
    /\ UNCHANGED <<ctor, eval, pipeline, gor, routes, queue, chanClosed, ctxDone,
                   closer, disp, calls, sink, procs, crashed>>

\* The select of worker.run receives a message.
WorkerReceive(w) ==
    /\ ~crashed
    /\ wk[w].pc = "recv"
    /\ queue[w[1]] # <<>>
    /\ wk' = [wk EXCEPT ![w].pc = "process", ![w].msg = Head(queue[w[1]]),
                        ![w].recs = <<>>, ![w].idx = 0]
    /\ queue' = [queue EXCEPT ![w[1]] = Tail(@)]
    /\ taken' = taken \cup {<<Head(queue[w[1]]).Time, w>>}
    /\ UNCHANGED <<ctor, eval, pipeline, gor, routes, chanClosed, ctxDone, closer,
                   disp, calls, sink, procs, crashed>>

\* Faulty variant: run returns when process reports an error.
ProcessReturnsStopsOnError(w, how) ==
    /\ wk' = [wk EXCEPT ![w].pc = IF how = "err" THEN "exited" ELSE "recv",
                        ![w].res = NoResult]
    /\ procs' = procs \cup {<<wk[w].msg.Time, how>>}

\* worker.process returns to run with an error (logged) or with nil.  The
\* worker keeps, as history, its last message, the records parsed for it
\* and the index of the last record it called the sink for.
ProcessReturns(w, how) ==
    /\ wk' = [wk EXCEPT ![w].pc = "recv", ![w].res = NoResult]
    /\ procs' = procs \cup {<<wk[w].msg.Time, how>>}

\* The table a record goes to: its own, or the worker's default.
RecordTable(rec, w) == IF rec.Table = "" THEN routes[w[1]].Table ELSE rec.Table

\* Faulty variant: the loop walks the records from the last to the first.
InsertRecordBackwards(w, records, i) ==
    /\ sink' = Inserted(InsertCall("router",
                 RecordTable(records[Len(records) + 1 - i], w),
                 records[Len(records) + 1 - i].Columns, wk[w].msg, w))
    /\ wk' = [wk EXCEPT ![w].pc = "insert", ![w].res = NoResult,
                        ![w].recs = records, ![w].idx = i]

\* The loop over the records reaches records[i]: the call of the sink.
InsertRecord(w, records, i) ==
    /\ sink' = Inserted(InsertCall("router", RecordTable(records[i], w),
                                 records[i].Columns, wk[w].msg, w))
    /\ wk' = [wk EXCEPT ![w].pc = "insert", ![w].res = NoResult,
                        ![w].recs = records, ![w].idx = i]

\* Faulty variant: every worker without script writes to iot_raw.
PassthroughTableAlwaysRaw(table) == "iot_raw"

\* The table a worker without script writes to: the route's, or iot_raw for
\* the default name.
PassthroughTable(table) ==
    IF table = "" \/ table = "iot_data" THEN "iot_raw" ELSE table

\* worker.process of a script worker calls transform in its interpreter,
\* and the protected call comes back.
WorkerTransform(w) ==
    /\ ~crashed
    /\ wk[w].pc = "process"
    /\ wk[w].state # "nil"
    /\ \E result \in TransformResults(routes[w[1]].Script, wk[w].msg) :
         wk' = [wk EXCEPT ![w].pc = "result", ![w].res = result]
    /\ UNCHANGED <<ctor, eval, pipeline, gor, routes, queue, chanClosed, ctxDone,
                   closer, disp, calls, sink, taken, procs, crashed>>

\* worker.process up to its first call of the sink: the passthrough record
\* of a worker without script, or what transform returned and its first
\* record.
WorkerProcess(w) ==
    /\ ~crashed
    /\ \/ wk[w].pc = "process" /\ wk[w].state = "nil"
       \/ wk[w].pc = "result"
    /\ IF wk[w].state = "nil"
       THEN /\ sink' = Inserted(InsertCall("router",
                                 PassthroughTable(routes[w[1]].Table),
                                 buildPassthroughRecord(wk[w].msg), wk[w].msg, w))
            /\ wk' = [wk EXCEPT ![w].pc = "insert"]
            /\ UNCHANGED procs
       ELSE LET out == executeTransform(routes[w[1]].Script, wk[w].res)
              IN  IF ~out.ok
                  THEN ProcessReturns(w, "err") /\ UNCHANGED sink
                  ELSE IF out.records = <<>>
                  THEN ProcessReturns(w, "ok") /\ UNCHANGED sink
                  ELSE InsertRecord(w, out.records, 1) /\ UNCHANGED procs
    /\ UNCHANGED <<ctor, eval, pipeline, gor, routes, queue, chanClosed, ctxDone,
                   closer, disp, calls, taken, crashed>>

\* Faulty variant: an error of the sink is noted for the message and the
\* loop goes on with the next record.
WorkerInsertReturnGoesOn(w) ==
    /\ ~crashed
    /\ wk[w].pc = "insert"
    /\ \E err \in BOOLEAN :
         IF wk[w].idx < Len(wk[w].recs)
         THEN /\ InsertRecord(w, wk[w].recs, wk[w].idx + 1)
              /\ procs' = IF err THEN procs \cup {<<wk[w].msg.Time, "err">>}
                          ELSE procs
         ELSE /\ ProcessReturns(w, IF err THEN "err" ELSE "ok")
              /\ UNCHANGED sink
    /\ UNCHANGED <<ctor, eval, pipeline, gor, routes, queue, chanClosed, ctxDone,
                   closer, disp, calls, taken, crashed>>

\* The sink returns to worker.process: on an error process returns it, else
\* it goes on with the next record, or returns nil after the last.
WorkerInsertReturn(w) ==
    /\ ~crashed
    /\ wk[w].pc = "insert"
    /\ \E err \in BOOLEAN :
         IF err
         THEN ProcessReturns(w, "err") /\ UNCHANGED sink
         ELSE IF wk[w].idx < Len(wk[w].recs)
         THEN InsertRecord(w, wk[w].recs, wk[w].idx + 1) /\ UNCHANGED procs
         ELSE ProcessReturns(w, "ok") /\ UNCHANGED sink
    /\ UNCHANGED <<ctor, eval, pipeline, gor, routes, queue, chanClosed, ctxDone,
                   closer, disp, calls, taken, crashed>>

-----------------------------------------------------------------------------
(* Router.Close.                                                           *)

\* r.cancel()
CloseCancel ==
    /\ ~crashed
    /\ ctor.pc = "returned" /\ ~ctor.err
    /\ closer.pc = "idle"
    /\ ctxDone' = TRUE
    /\ closer' = [pc |-> IF Len(routes) = 0 THEN "wait" ELSE "closing", i |-> 1]
    /\ UNCHANGED <<ctor, eval, pipeline, gor, routes, queue, chanClosed, wk, disp,
                   calls, sink, taken, procs, crashed>>

\* close(handler.msgChan), one route per step, in declaration order.
CloseChannel ==
    /\ ~crashed
    /\ closer.pc = "closing"
    /\ chanClosed' = [chanClosed EXCEPT ![closer.i] = TRUE]
    /\ closer' = IF closer.i = Len(routes) THEN [closer EXCEPT !.pc = "wait"]
                 ELSE [closer EXCEPT !.i = closer.i + 1]
    /\ UNCHANGED <<ctor, eval, pipeline, gor, routes, queue, ctxDone, wk, disp,
                   calls, sink, taken, procs, crashed>>

\* r.wg.Wait() returns once every worker has returned from run.
CloseReturn ==
    /\ ~crashed
    /\ closer.pc = "wait"
    /\ \A w \in WorkerIds : wk[w].pc = "exited"
    /\ closer' = [closer EXCEPT !.pc = "returned"]
    /\ UNCHANGED <<ctor, eval, pipeline, gor, routes, queue, chanClosed, ctxDone,
                   wk, disp, calls, sink, taken, procs, crashed>>

-----------------------------------------------------------------------------

Next ==
    \/ Dispatch
    \/ DispatchReturn
    \/ \E w \in WorkerIds : WorkerExit(w)
    \/ \E w \in WorkerIds : WorkerReceive(w)
    \/ \E w \in WorkerIds : WorkerTransform(w)
    \/ \E w \in WorkerIds : WorkerProcess(w)
    \/ \E w \in WorkerIds : WorkerInsertReturn(w)
    \/ CloseCancel
    \/ CloseChannel
    \/ CloseReturn

Spec == Init /\ [][Next]_vars

\* The run of cmd/hermod: main disconnects the broker client before it calls
\* Router.Close (its deferred calls run in reverse order), so that no
\* Dispatch call starts once Close has been called.
DispatchBeforeClose == closer.pc = "idle" /\ Dispatch

LiveNext ==
    \/ DispatchBeforeClose
    \/ DispatchReturn
    \/ \E w \in WorkerIds : WorkerExit(w)
    \/ \E w \in WorkerIds : WorkerReceive(w)
    \/ \E w \in WorkerIds : WorkerTransform(w)
    \/ \E w \in WorkerIds : WorkerProcess(w)
    \/ \E w \in WorkerIds : WorkerInsertReturn(w)
    \/ CloseCancel
    \/ CloseChannel
    \/ CloseReturn

\* A step of a goroutine that is already running: Dispatch returning from
\* the sink, a worker, or Close past its call of cancel.
Running ==
    \/ DispatchReturn
    \/ \E w \in WorkerIds : WorkerExit(w)
    \/ \E w \in WorkerIds : WorkerReceive(w)
    \/ \E w \in WorkerIds : WorkerTransform(w)
    \/ \E w \in WorkerIds : WorkerProcess(w)
    \/ \E w \in WorkerIds : WorkerInsertReturn(w)
    \/ CloseChannel
    \/ CloseReturn

\* Runnable goroutines run, and every call of the sink returns: the program
\* does not stop while a running goroutine can take a step.
Fairness == WF_vars(Running)

\* The router of a run to completion: a pool of script workers and a
\* passthrough route behind it.
LiveInit ==
    /\ InitWith(RoutingRoutes)
    /\ eval = NoEval
    /\ NoLegacy

LiveSpec == LiveInit /\ [][LiveNext]_vars /\ Fairness

-----------------------------------------------------------------------------
(* router.New step by step: the routes are initialised in declaration      *)
(* order, and the workers of a route are started one after the other,      *)
(* each on a goroutine of its own, while New goes on.                      *)

\* Routes in a list given to New.
MaxRoutes == 2

\* The routes New is given: a pool of two script workers, a pool whose
\* script file is removed while New runs, a route whose script file is not
\* there, and a route with a table name that is no identifier.
ConstructionRoutes ==
    { [Filter |-> <<"a", "+">>, Script |-> "t.lua", Workers |-> 2,
       QueueSize |-> 1, Table |-> "sensor_data"],
      [Filter |-> <<"a", "#">>, Script |-> "removed.lua", Workers |-> 2,
       QueueSize |-> 0, Table |-> ""],
      [Filter |-> <<"a", "+", "c">>, Script |-> "missing.lua", Workers |-> 0,
       QueueSize |-> 2, Table |-> "events"],
      [Filter |-> <<"a", "+">>, Script |-> "", Workers |-> 1,
       QueueSize |-> 1, Table |-> "bad name"] }

ConstructionLists == UNION {[1..n -> ConstructionRoutes] : n \in 0..MaxRoutes}

\* L.DoFile(scriptPath) in newWorker, whether it fails: it does for a file
\* that is not there, and may at each call for a file removed meanwhile.
DoFileFails(script) ==
    IF LoadFails(script) THEN {TRUE}
    ELSE IF script = "removed.lua" THEN BOOLEAN
    ELSE {FALSE}

\* New has made the router, with no route handler yet.
NewInit ==
    /\ \E rs \in ConstructionLists :
          ctor = [pc |-> "handler", cfg |-> rs, i |-> 1, j |-> 0,
                  err |-> FALSE, why |-> ""]
    /\ routes = <<>>
    /\ queue = <<>>
    /\ chanClosed = <<>>
    /\ ctxDone = FALSE
    /\ closer = [pc |-> "idle", i |-> 1]
    /\ wk = [w \in {} |-> newWorker(w, <<>>)]
    /\ disp = [pc |-> "idle"]
    /\ calls = <<>>
    /\ sink = [p \in {Fallback} |-> <<>>]
    /\ taken = {}
    /\ procs = {}
    /\ crashed = FALSE
    /\ eval = NoEval
    /\ NoLegacy

\* The route New is at, with the defaults of newRouteHandler.
RouteAt == newRouteHandler(ctor.cfg[ctor.i])

\* New calls newRouteHandler for the next route: the defaults, the check of
\* the table name, and the route's channel.
NewNextRoute ==
    /\ ctor.pc = "handler"
    /\ ctor.i <= Len(ctor.cfg)
    /\ IF ~validIdentifier(RouteAt.Table)
       THEN /\ ctor' = [ctor EXCEPT !.pc = "cancel", !.why = "table"]
            /\ UNCHANGED <<queue, chanClosed>>
       ELSE /\ ctor' = [ctor EXCEPT !.pc = "worker", !.j = 0]
            /\ queue' = Append(queue, <<>>)
            /\ chanClosed' = Append(chanClosed, FALSE)
    /\ UNCHANGED <<routes, ctxDone, closer, wk, disp, calls, sink, taken,
                   procs, crashed, eval, pipeline, gor>>

\* One turn of newRouteHandler's loop: newWorker loads the script, and
\* either fails, which ends newRouteHandler with an error, or the worker is
\* added to the wait group and started.
NewStartWorker ==
    /\ ctor.pc = "worker"
    /\ ctor.j < RouteAt.Workers
    /\ \E fails \in DoFileFails(RouteAt.Script) :
         IF RouteAt.Script # "" /\ fails
         THEN /\ ctor' = [ctor EXCEPT !.pc = "cancel", !.why = "script"]
              /\ UNCHANGED <<wk, sink>>
         ELSE /\ wk' = wk @@ (<<ctor.i, ctor.j>> :>
                                newWorker(<<ctor.i, ctor.j>>, RouteAt))
              /\ sink' = sink @@ (<<ctor.i, ctor.j>> :> <<>>)
              /\ ctor' = [ctor EXCEPT !.j = @ + 1]
    /\ UNCHANGED <<routes, queue, chanClosed, ctxDone, closer, disp, calls,
                   taken, procs, crashed, eval, pipeline, gor>>

\* newRouteHandler returns the handler and New appends it to r.routes.
NewAppendHandler ==
    /\ ctor.pc = "worker"
    /\ ctor.j = RouteAt.Workers
    /\ routes' = Append(routes, RouteAt)
    /\ ctor' = [ctor EXCEPT !.pc = "handler", !.i = @ + 1, !.j = 0]
    /\ UNCHANGED <<queue, chanClosed, ctxDone, closer, wk, disp, calls, sink,
                   taken, procs, crashed, eval, pipeline, gor>>

\* Faulty variant: New returns the error of newRouteHandler without calling
\* cancel.
NewReturnsErrorOnly ==
    /\ ctor.pc = "cancel"
    /\ ctor' = [ctor EXCEPT !.pc = "returned", !.err = TRUE]
    /\ UNCHANGED <<routes, queue, chanClosed, ctxDone, closer, wk, disp, calls,
                   sink, taken, procs, crashed, eval, pipeline, gor>>

\* newRouteHandler returned an error: New calls cancel() and returns the
\* error and no router.
NewCancel ==
    /\ ctor.pc = "cancel"
    /\ ctxDone' = TRUE
    /\ ctor' = [ctor EXCEPT !.pc = "returned", !.err = TRUE]
    /\ UNCHANGED <<routes, queue, chanClosed, closer, wk, disp, calls, sink,
                   taken, procs, crashed, eval, pipeline, gor>>

\* Every route has its handler: New returns the router.
NewReturn ==
    /\ ctor.pc = "handler"
    /\ ctor.i > Len(ctor.cfg)
    /\ ctor' = [ctor EXCEPT !.pc = "returned"]
    /\ UNCHANGED <<routes, queue, chanClosed, ctxDone, closer, wk, disp, calls,
                   sink, taken, procs, crashed, eval, pipeline, gor>>

\* The worker goroutines started so far.
Started == DOMAIN wk

\* Faulty variant: run returns without the deferred w.state.Close().
WorkerReturnKeepsState(w) ==
    /\ wk[w].pc = "recv"
    /\ ctxDone \/ (chanClosed[w[1]] /\ queue[w[1]] = <<>>)
    /\ wk' = [wk EXCEPT ![w].pc = "deferred"]
    /\ UNCHANGED <<ctor, routes, queue, chanClosed, ctxDone, closer, disp,
                   calls, sink, taken, procs, crashed, eval, pipeline, gor>>

\* The return of run with its deferred calls one by one.  The select takes
\* the case of the cancelled context, or the receive on a closed and empty
\* channel: the worker returns, and the call deferred last,
\* w.state.Close(), runs first.
WorkerReturn(w) ==
    /\ wk[w].pc = "recv"
    /\ ctxDone \/ (chanClosed[w[1]] /\ queue[w[1]] = <<>>)
    /\ wk' = [wk EXCEPT ![w].pc = "deferred",
                        ![w].state = IF @ = "open" THEN "closed" ELSE @]
    /\ UNCHANGED <<ctor, routes, queue, chanClosed, ctxDone, closer, disp,
                   calls, sink, taken, procs, crashed, eval, pipeline, gor>>

\* The call deferred first, wg.Done(), runs last: the wait group counts the
\* worker.
WorkerDone(w) ==
    /\ wk[w].pc = "deferred"
    /\ wk' = [wk EXCEPT ![w].pc = "exited"]
    /\ UNCHANGED <<ctor, routes, queue, chanClosed, ctxDone, closer, disp,
                   calls, sink, taken, procs, crashed, eval, pipeline, gor>>

\* New, the workers it started, and Close on the router New returned.
NewNext ==
    \/ NewNextRoute
    \/ NewStartWorker
    \/ NewAppendHandler
    \/ NewCancel
    \/ NewReturn
    \/ \E w \in Started : WorkerReturn(w)
    \/ \E w \in Started : WorkerDone(w)
    \/ CloseCancel
    \/ CloseChannel
    \/ CloseReturn

\* A step of a goroutine that is already running: New, a worker, or Close
\* past its call of cancel.
NewRunning ==
    \/ NewNextRoute
    \/ NewStartWorker
    \/ NewAppendHandler
    \/ NewCancel
    \/ NewReturn
    \/ \E w \in Started : WorkerReturn(w)
    \/ \E w \in Started : WorkerDone(w)
    \/ CloseChannel
    \/ CloseReturn

\* Runnable goroutines run; whether Close is ever called is up to the
\* caller of New.
NewSpec == NewInit /\ [][NewNext]_vars /\ WF_vars(NewRunning)

-----------------------------------------------------------------------------
(* Package schema: Merge, GenerateSQL and GenerateCreateTable.  A Schema   *)
(* is its Tables map, table name -> column name -> SQL type, each table    *)
(* named by its key as LoadFromLuaScript builds it.  Text is a sequence of *)
(* pieces, the empty string the empty sequence.                            *)

\* A schema without tables.
NoTables == [t \in {} |-> NoColumns]

\* A nil *Schema, and a pointer to a schema with the given tables.
NilSchema == [nil |-> TRUE, Tables |-> NoTables]
SchemaOf(tables) == [nil |-> FALSE, Tables |-> tables]

\* Faulty variant: a column declared again takes the later type.
MergeColumnsLastWins(existing, tableSchema) ==
    [c \in DOMAIN existing \cup DOMAIN tableSchema |->
        IF c \in DOMAIN tableSchema THEN tableSchema[c] ELSE existing[c]]

\* Merge, a table that is already in merged: only the columns it does not
\* have yet are added.
MergeColumns(existing, tableSchema) ==
    [c \in DOMAIN existing \cup DOMAIN tableSchema |->
        IF c \in DOMAIN existing THEN existing[c] ELSE tableSchema[c]]

\* Merge, the loop over the tables of one schema.
MergeTables(merged, s) ==
    [tableName \in DOMAIN merged \cup DOMAIN s.Tables |->
        IF tableName \notin DOMAIN s.Tables THEN merged[tableName]
        ELSE IF tableName \in DOMAIN merged
        THEN MergeColumns(merged[tableName], s.Tables[tableName])
        ELSE s.Tables[tableName]]

\* Merge, the loop over its arguments from the i-th on; nil is skipped.
RECURSIVE MergeFrom(_, _, _)
MergeFrom(merged, schemas, i) ==
    IF i > Len(schemas) THEN merged
    ELSE IF schemas[i].nil THEN MergeFrom(merged, schemas, i + 1)
    ELSE MergeFrom(MergeTables(merged, schemas[i]), schemas, i + 1)

\* schema.Merge: the Tables of the merged schema.
Merge(schemas) == MergeFrom(NoTables, schemas, 1)

\* Merge on the objects it works with.  The *TableSchema of table t in the
\* i-th argument is the object <<i, t>>; heap gives the Columns of every
\* object, and a Tables map gives the object of each table name.
InputObjects(schemas) ==
    {a \in (1..Len(schemas)) \X
              UNION {DOMAIN schemas[j].Tables : j \in 1..Len(schemas)} :
        ~schemas[a[1]].nil /\ a[2] \in DOMAIN schemas[a[1]].Tables}
InputHeap(schemas) ==
    [a \in InputObjects(schemas) |-> schemas[a[1]].Tables[a[2]]]

\* Faulty variant: the table of the argument itself is put into merged.
NewTableShared(i, t) == <<i, t>>

\* newTable := &TableSchema{...}: a new object, none of the arguments'.
NewTable(i, t) == <<0, t>>

\* Merge, the loop over its arguments from the i-th on, on objects: a table
\* already in merged gets the columns it lacks written into its object, a
\* table not yet there gets an object with a copy of the columns.
RECURSIVE MergeObjectsFrom(_, _, _, _)
MergeObjectsFrom(heap, tables, schemas, i) ==
    IF i > Len(schemas) THEN [heap |-> heap, tables |-> tables]
    ELSE IF schemas[i].nil THEN MergeObjectsFrom(heap, tables, schemas, i + 1)
    ELSE LET names  == DOMAIN schemas[i].Tables
             old    == names \cap DOMAIN tables
             new    == names \ DOMAIN tables
             tables2 == [t \in DOMAIN tables \cup new |->
                           IF t \in new THEN NewTable(i, t) ELSE tables[t]]
             heap2  == [a \in DOMAIN heap \cup {NewTable(i, t) : t \in new} |->
                           IF \E t \in old : tables[t] = a
                           THEN MergeColumns(heap[a],
                                    heap[<<i, CHOOSE t \in old : tables[t] = a>>])
                           ELSE IF \E t \in new : NewTable(i, t) = a
                           THEN heap[<<i, CHOOSE t \in new : NewTable(i, t) = a>>]
                           ELSE heap[a]]
         IN  MergeObjectsFrom(heap2, tables2, schemas, i + 1)

\* schema.Merge: the objects after the call and the Tables of the result.
MergeObjects(schemas) ==
    MergeObjectsFrom(InputHeap(schemas), NoTables, schemas, 1)

\* The bytes of the names that are sorted.
Bytes(name) ==
    CASE name = "events"      -> <<101, 118, 101, 110, 116, 115>>
      [] name = "sensor_data" -> <<115, 101, 110, 115, 111, 114, 95, 100, 97,
                                   116, 97>>
      [] name = "time"        -> <<116, 105, 109, 101>>
      [] name = "value"       -> <<118, 97, 108, 117, 101>>
      [] name = "topic"       -> <<116, 111, 112, 105, 99>>
      [] name = "payload"     -> <<112, 97, 121, 108, 111, 97, 100>>
      [] name = "_id"         -> <<95, 105, 100>>
      [] name = "1st"         -> <<49, 115, 116>>
      [] name = "bad-col"     -> <<98, 97, 100, 45, 99, 111, 108>>
      [] name = ""            -> <<>>
      [] name = "v"           -> <<118>>
      [] name = "processed"   -> <<112, 114, 111, 99, 101, 115, 115, 101, 100>>

\* Go's < on strings: byte by byte, a proper prefix first.
RECURSIVE bytesLess(_, _, _)
bytesLess(x, y, i) ==
    IF i > Len(y) THEN FALSE
    ELSE IF i > Len(x) THEN TRUE
    ELSE IF x[i] # y[i] THEN x[i] < y[i]
    ELSE bytesLess(x, y, i + 1)

StringLess(a, b) == bytesLess(Bytes(a), Bytes(b), 1)

\* Faulty variant: the keys stay in the order the map gave them.
SortStringsLeftAsIs(keys) == keys

\* sort.Strings on the keys of a map (no key twice): each key goes to the
\* position after the keys less than it.
SortStrings(keys) ==
    LET n == Len(keys)
        rank(i) == 1 + Cardinality({j \in 1..n : StringLess(keys[j], keys[i])})
    IN  [k \in 1..n |-> keys[CHOOSE i \in 1..n : rank(i) = k]]

\* `for name := range m`: the keys of m in the order this iteration gives
\* them, order being an enumeration of all names.
Range(m, order) == SelectSeq(order, LAMBDA k : k \in DOMAIN m)

\* The pieces of several texts, written one after the other.
RECURSIVE WriteAll(_)
WriteAll(texts) ==
    IF texts = <<>> THEN <<>> ELSE Head(texts) \o WriteAll(Tail(texts))

\* Pieces that are white space only.
Space == {" ", "  ", "\n", "\n\n"}

\* strings.TrimSpace.
RECURSIVE TrimSpace(_)
TrimSpace(text) ==
    IF text = <<>> THEN text
    ELSE IF Head(text) \in Space THEN TrimSpace(Tail(text))
    ELSE IF text[Len(text)] \in Space
    THEN TrimSpace(SubSeq(text, 1, Len(text) - 1))
    ELSE text

\* TableSchema.GenerateCreateTable.
GenerateCreateTable(name, columns, order) ==
    LET colNames == SortStrings(Range(columns, order))
        line(i)  == <<"  ", colNames[i], " ", columns[colNames[i]]>>
                    \o (IF i < Len(colNames) THEN <<",">> ELSE <<>>)
                    \o <<"\n">>
    IN  <<"CREATE TABLE IF NOT EXISTS ", name, " (\n">>
        \o WriteAll([i \in 1..Len(colNames) |-> line(i)])
        \o <<");">>

\* Schema.GenerateSQL.
GenerateSQL(tables, order) ==
    IF DOMAIN tables = {} THEN <<>>
    ELSE LET tableNames == SortStrings(Range(tables, order))
         IN  TrimSpace(WriteAll([i \in 1..Len(tableNames) |->
                 GenerateCreateTable(tableNames[i], tables[tableNames[i]], order)
                 \o <<"\n\n">>]))

-----------------------------------------------------------------------------
(* Package storage: Storage.Insert on a Storage that New has built.        *)

\* Faulty variant: a digit may come first.
validColumnNameAnyFirst(name) ==
    /\ Len(Spelling(name)) > 0
    /\ \A i \in 1..Len(Spelling(name)) : Spelling(name)[i] \in {"L", "D", "U"}

\* validColumnName = regexp.MustCompile(`^[a-zA-Z_][a-zA-Z0-9_]*$`)
validColumnName(name) ==
    /\ Len(Spelling(name)) > 0
    /\ Spelling(name)[1] \in {"L", "U"}
    /\ \A i \in 2..Len(Spelling(name)) : Spelling(name)[i] \in {"L", "D", "U"}

\* validTableName = regexp.MustCompile(`^[a-zA-Z_][a-zA-Z0-9_]*$`)
validTableName(name) ==
    /\ Len(Spelling(name)) > 0
    /\ Spelling(name)[1] \in {"L", "U"}
    /\ \A i \in 2..Len(Spelling(name)) : Spelling(name)[i] \in {"L", "D", "U"}

\* Go values that are not scalars, and their JSON encoding.
GoMap(m)   == [gt |-> "map", m |-> m]
GoBytes(v) == [gt |-> "[]byte", json |-> v]

\* A Storage as New returns it: a valid table name, with or without a pool.
Storages == {[tableName |-> "iot_raw", dryRun |-> d] : d \in BOOLEAN}

\* What a call of Insert did: the error it returned ("nil" for none), the
\* statement it built (empty for none) with its values, whether the
\* statement was logged and whether it was executed.
InsertOutcome(err, sql, values, logged, executed) ==
    [err |-> err, sql |-> sql, values |-> values, logged |-> logged,
     executed |-> executed]

\* strings.Join(elems, ", ").
RECURSIVE Join(_)
Join(elems) ==
    IF Len(elems) = 0 THEN <<>>
    ELSE IF Len(elems) = 1 THEN <<elems[1]>>
    ELSE <<elems[1], ", ">> \o Join(Tail(elems))

\* fmt.Sprintf("$%d", n).
Placeholder(n) == <<"$", n>>

\* Storage.Insert; order is the order in which the keys of data are found,
\* execFails whether pool.Exec returns an error.
Insert(s, data, order, execFails) ==
    IF DOMAIN data = {}
    THEN InsertOutcome("empty data provided", <<>>, <<>>, FALSE, FALSE)
    ELSE IF \E key \in DOMAIN data : ~validColumnName(key)
    THEN InsertOutcome("invalid column name", <<>>, <<>>, FALSE, FALSE)
    ELSE LET keys   == SortStrings(Range(data, order))
             values == [i \in 1..Len(keys) |->
                          IF data[keys[i]].gt = "map"
                          THEN GoBytes(data[keys[i]])
                          ELSE data[keys[i]]]
             query  == <<"INSERT INTO ", s.tableName, " (">> \o Join(keys)
                       \o <<") VALUES (">>
                       \o Join([i \in 1..Len(keys) |-> Placeholder(i)])
                       \o <<")">>
         IN  IF s.dryRun THEN InsertOutcome("nil", query, values, TRUE, FALSE)
             ELSE IF execFails
             THEN InsertOutcome("failed to insert record", query, values,
                                FALSE, TRUE)
             ELSE InsertOutcome("nil", query, values, FALSE, TRUE)

-----------------------------------------------------------------------------
(* The pure functions of the package, each called on its own on every      *)
(* argument of a bounded set.                                              *)

\* The level sequences of at most n levels over a set of levels.
LevelSeqs(S, n) == UNION {[1..k -> S] : k \in 1..n}

\* Filters: literal levels, the empty level and both wildcards, anywhere.
Filters == LevelSeqs({"a", "b", "", "+", "#"}, MaxLevels)

\* Topics a broker delivers: literal levels and the empty level.
TopicNames == LevelSeqs({"a", "b", ""}, MaxLevels)

\* Messages of every QoS and retain flag, with JSON and other payloads.
Messages ==
    {[Topic |-> t, Payload |-> p, QoS |-> q, Retain |-> r, Time |-> 1] :
        t \in Topics, p \in Payloads \cup {"null", ""}, q \in 0..2,
        r \in BOOLEAN}

\* The arguments of one call of Merge are at most this many.
MaxSchemas == 2

\* Names of tables and of columns in the schemas.
TableNames == {"events", "sensor_data"}
ColumnNames == {"time", "value"}

\* The SQL types a script may give a column.
ColumnTypes(c) ==
    IF c = "time" THEN {"timestamptz", "text"} ELSE {"double precision"}

\* Functions from any subset of S, taking at k a value of V(k).
Maps(S, V(_)) ==
    UNION {{f \in [D -> UNION {V(k) : k \in D}] : \A k \in D : f[k] \in V(k)} :
              D \in SUBSET S}

\* The Columns of a table, the Tables of a schema, the arguments of Merge.
TableSchemas == Maps(ColumnNames, ColumnTypes)
Schemas == Maps(TableNames, LAMBDA t : TableSchemas)
SchemaLists ==
    UNION {[1..n -> {NilSchema} \cup {SchemaOf(s) : s \in Schemas}] :
              n \in 0..MaxSchemas}

\* The enumerations of a set.
RECURSIVE Perms(_)
Perms(S) ==
    IF S = {} THEN {<<>>}
    ELSE UNION {{<<x>> \o p : p \in Perms(S \ {x})} : x \in S}

\* The orders in which one iteration may give the keys of the maps.
KeyOrders == {tp \o cp : tp \in Perms(TableNames), cp \in Perms(ColumnNames)}

\* The columns of a record: declared or not, with values of several types.
RecordColumns ==
    Maps({"time", "value", "bogus"},
         LAMBDA c : {GoString("x"), GoFloat(1), GoNil})

\* Column names a caller may hand to Insert, and the maps it may hand over.
InsertNames == {"topic", "_id", "1st", "bad-col", ""}
InsertData ==
    Maps(InsertNames, LAMBDA k : {GoString("x"), GoMap([v |-> GoFloat(1)])})

\* Default tables a configuration may name, and the route lists New is
\* called on: one or two passthrough routes.
ConfiguredTables == {"", "sensor_data", "_id", "1st", "bad name"}
RouteLists ==
    UNION {[1..n -> {[Filter |-> <<"a", "+">>, Script |-> "", Workers |-> 1,
                      QueueSize |-> 1, Table |-> t] : t \in ConfiguredTables}] :
              n \in 1..2}

\* A pure function is about to be called on arguments args.
ToCall(fn, args) == [fn |-> fn, args |-> args, done |-> FALSE, ret |-> <<>>]

PureInit ==
    /\ InitWith(<<>>)
    /\ NoLegacy
    /\ \/ \E f \in Filters, t \in TopicNames :
             eval = ToCall("topicMatches", <<f, t>>)
       \/ \E m \in Messages : eval = ToCall("buildPassthroughRecord", <<m>>)
       \/ \E ss \in SchemaLists : eval = ToCall("Merge", <<ss>>)
       \/ \E s \in Schemas, o1 \in KeyOrders, o2 \in KeyOrders :
             eval = ToCall("GenerateSQL", <<s, o1, o2>>)
       \/ \E t \in TableSchemas, c \in RecordColumns :
             eval = ToCall("ValidateRecord", <<t, c>>)
       \/ \E st \in Storages, d \in InsertData :
             eval = ToCall("Insert", <<st, d>>)
       \/ \E ss \in SchemaLists : eval = ToCall("MergeObjects", <<ss>>)
       \/ \E rs \in RouteLists : eval = ToCall("New", <<rs>>)
       \/ \E name \in InsertNames \cup ConfiguredTables :
             eval = ToCall("MatchString", <<name>>)

\* The call returns value v.
Returns(v) ==
    /\ eval' = [eval EXCEPT !.done = TRUE, !.ret = v]
    /\ UNCHANGED <<ctor, routes, queue, chanClosed, ctxDone, closer, wk, disp, calls,
                   sink, taken, procs, crashed, pipeline, gor>>

CallTopicMatches ==
    /\ eval.fn = "topicMatches" /\ ~eval.done
    /\ Returns(topicMatches(eval.args[1], eval.args[2]))

CallBuildPassthroughRecord ==
    /\ eval.fn = "buildPassthroughRecord" /\ ~eval.done
    /\ Returns(buildPassthroughRecord(eval.args[1]))

\* One call of Merge.
CallMerge ==
    /\ eval.fn = "Merge" /\ ~eval.done
    /\ Returns(Merge(eval.args[1]))

\* Two calls of GenerateSQL on one schema, each with the order in which its
\* iterations find the keys of the maps; both texts are returned.
CallGenerateSQL ==
    /\ eval.fn = "GenerateSQL" /\ ~eval.done
    /\ Returns(<<GenerateSQL(eval.args[1], eval.args[2]),
                 GenerateSQL(eval.args[1], eval.args[3])>>)

\* One call of ValidateRecord; TRUE is a nil error.
CallValidateRecord ==
    /\ eval.fn = "ValidateRecord" /\ ~eval.done
    /\ Returns(ValidateRecord(eval.args[1], eval.args[2]))

\* One call of Insert, with any iteration order of the map and either
\* outcome of the database.
CallInsert ==
    /\ eval.fn = "Insert" /\ ~eval.done
    /\ \E order \in Perms(DOMAIN eval.args[2]), execFails \in BOOLEAN :
          Returns(Insert(eval.args[1], eval.args[2], order, execFails))

\* One call of router.New.
CallNew ==
    /\ eval.fn = "New" /\ ~eval.done
    /\ Returns(NewReturns(eval.args[1]))

\* MatchString of the router's expression and of the two of the storage on
\* one name.
CallMatchString ==
    /\ eval.fn = "MatchString" /\ ~eval.done
    /\ Returns([router |-> validIdentifier(eval.args[1]),
                table  |-> validTableName(eval.args[1]),
                column |-> validColumnName(eval.args[1])])

\* One call of Merge, looked at with the objects it reads and writes.
CallMergeObjects ==
    /\ eval.fn = "MergeObjects" /\ ~eval.done
    /\ Returns(MergeObjects(eval.args[1]))

PureNext ==
    \/ CallTopicMatches
    \/ CallBuildPassthroughRecord
    \/ CallMerge
    \/ CallGenerateSQL
    \/ CallValidateRecord
    \/ CallInsert
    \/ CallMergeObjects
    \/ CallNew
    \/ CallMatchString

PureSpec == PureInit /\ [][PureNext]_vars

-----------------------------------------------------------------------------
(* The legacy pipeline: goroutines of the MQTT client call Pipeline.Process *)
(* on one Pipeline, which calls Transformer.Transform and Storage.Insert.  *)

\* Process calls in one run are at most this many.
MaxCalls == 2

Goroutines == 1..MaxCalls

\* The scripts of the legacy transformer: one that marks its argument and
\* returns it, one that raises an error.
LegacyScripts == {"processed.lua", "error.lua"}

\* What the messages of the legacy pipeline are drawn from.
LegacyTopics == {<<"a", "b">>, <<"x", "y">>}
LegacyPayloads == {"{\"v\":1.5}", "hello", "null"}

\* lua.New(scriptPath), or no transformer for the empty path.
NewTransformer(scriptPath) ==
    [nil |-> scriptPath = "", scriptPath |-> scriptPath, mu |-> 0, state |-> <<>>]

\* pipeline.New(transformer, storage, log); calls records Storage.Insert.
NewPipeline(transformer, storage) ==
    [built |-> TRUE, transformer |-> transformer, storage |-> storage,
     calls |-> <<>>]

\* A goroutine that has not called Process.
Idle ==
    [pc |-> "idle", topic |-> <<>>, payload |-> "", data |-> NoColumns,
     in |-> NoColumns, out |-> NoColumns, terr |-> "none", ret |-> "none"]

LegacyInit ==
    /\ InitWith(<<>>)
    /\ eval = NoEval
    /\ \E scriptPath \in LegacyScripts \cup {""}, storage \in Storages :
          pipeline = NewPipeline(NewTransformer(scriptPath), storage)
    /\ gor = [g \in Goroutines |-> Idle]

\* json.Unmarshal(payload, &data) with data a map: a JSON object fills it,
\* JSON null leaves it nil without error, anything else is an error.
unmarshalMap(payload) ==
    LET u == jsonUnmarshal(payload)
    IN  IF ~u.ok THEN [err |-> TRUE, nil |-> TRUE, m |-> NoColumns]
        ELSE IF u.val = GoNil THEN [err |-> FALSE, nil |-> TRUE, m |-> NoColumns]
        ELSE [err |-> FALSE, nil |-> FALSE, m |-> u.val]

\* The map m with key k set to v.
SetKey(m, k, v) ==
    [x \in DOMAIN m \cup {k} |-> IF x = k THEN v ELSE m[x]]

\* Transformer.interfaceToLValue and mapToTable, on the values JSON gives.
interfaceToLValue(v) ==
    CASE v.gt = "string"  -> LString(v.s)
      [] v.gt = "float64" -> LNumber(v.f)
      [] v.gt = "bool"    -> LBool(v.b)
mapToTable(m) == [k \in DOMAIN m |-> interfaceToLValue(m[k])]

\* Transformer.tableToMap.
tableToMap(tbl) == [k \in DOMAIN tbl |-> lvalueToInterface(tbl[k])]

\* Values on the interpreter's stack.
LTable(tbl) == [lt |-> "LTable", tbl |-> tbl]
LNil == [lt |-> "LNil"]

\* The global function transform of a script called on a table: the value
\* it returns, or an error raised.
CallTransform(scriptPath, table) ==
    IF scriptPath = "processed.lua"
    THEN [raised |-> FALSE, value |-> LTable(SetKey(table, "processed", LBool(TRUE)))]
    ELSE [raised |-> TRUE, value |-> LNil]

\* The other variables of the model stay as they are.
RouterIdle ==
    UNCHANGED <<ctor, routes, queue, chanClosed, ctxDone, closer, wk, disp, calls,
                sink, taken, procs, crashed, eval>>

\* No goroutine has panicked: the process is still there.
NoPanic == \A h \in Goroutines : gor[h].pc # "panicked"

\* Pipeline.Process up to the transformer: the payload is decoded and the
\* topic added; a value is assigned into the map json.Unmarshal left nil.
ProcessDecode(g) ==
    /\ NoPanic
    /\ gor[g].pc = "idle"
    /\ \E topic \in LegacyTopics, payload \in LegacyPayloads :
          LET u    == unmarshalMap(payload)
              data == IF u.err
                      THEN [topic |-> GoString(topic), payload |-> GoString(payload)]
                      ELSE SetKey(u.m, "topic", GoString(topic))
          IN  gor' = [gor EXCEPT ![g] =
                        [@ EXCEPT !.topic = topic, !.payload = payload,
                                  !.data = IF ~u.err /\ u.nil THEN NoColumns ELSE data,
                                  !.pc = IF ~u.err /\ u.nil THEN "panicked"
                                         ELSE IF pipeline.transformer.nil
                                         THEN "insert" ELSE "lock"]]
    /\ UNCHANGED pipeline
    /\ RouterIdle

\* Faulty variant: Transform does not take the mutex.
TransformLockNotTaken(g) ==
    /\ NoPanic
    /\ gor[g].pc = "lock"
    /\ gor' = [gor EXCEPT ![g].pc = "getglobal", ![g].in = gor[g].data]
    /\ UNCHANGED pipeline
    /\ RouterIdle

\* Transformer.Transform: t.mu.Lock().
TransformLock(g) ==
    /\ NoPanic
    /\ gor[g].pc = "lock"
    /\ pipeline.transformer.mu = 0
    /\ pipeline' = [pipeline EXCEPT !.transformer.mu = g]
    /\ gor' = [gor EXCEPT ![g].pc = "getglobal", ![g].in = gor[g].data]
    /\ RouterIdle

\* Transform returns an error: the deferred Unlock runs and Process returns
\* "failed to transform data" without calling the storage.
TransformFails(g, terr) ==
    /\ pipeline' = [pipeline EXCEPT !.transformer.mu = 0]
    /\ gor' = [gor EXCEPT ![g].pc = "done", ![g].terr = terr,
                          ![g].ret = "failed to transform data"]

\* Transformer.Transform: t.state.GetGlobal("transform").
TransformGetGlobal(g) ==
    /\ NoPanic
    /\ gor[g].pc = "getglobal"
    /\ IF pipeline.transformer.scriptPath \in LegacyScripts
       THEN gor' = [gor EXCEPT ![g].pc = "call"] /\ UNCHANGED pipeline
       ELSE TransformFails(g, "transform function not found in Lua script")
    /\ RouterIdle

\* Transformer.Transform: mapToTable and the protected call, which leaves
\* the value transform returns on the stack.
TransformCall(g) ==
    /\ NoPanic
    /\ gor[g].pc = "call"
    /\ LET r == CallTransform(pipeline.transformer.scriptPath,
                              mapToTable(gor[g].in))
       IN  IF r.raised THEN TransformFails(g, "failed to execute Lua transform")
           ELSE /\ pipeline' = [pipeline EXCEPT
                                  !.transformer.state = Append(@, r.value)]
                /\ gor' = [gor EXCEPT ![g].pc = "get"]
    /\ RouterIdle

\* Transformer.Transform: the result is read from the top of the stack and
\* popped, converted, the deferred Unlock runs, and Process goes on with it.
TransformGet(g) ==
    /\ NoPanic
    /\ gor[g].pc = "get"
    /\ LET stack  == pipeline.transformer.state
           result == IF stack = <<>> THEN LNil ELSE stack[Len(stack)]
           popped == IF stack = <<>> THEN stack
                     ELSE SubSeq(stack, 1, Len(stack) - 1)
       IN  IF result.lt # "LTable"
           THEN /\ pipeline' = [pipeline EXCEPT !.transformer.mu = 0,
                                                !.transformer.state = popped]
                /\ gor' = [gor EXCEPT ![g].pc = "done",
                              ![g].terr = "transform function must return a table",
                              ![g].ret = "failed to transform data"]
           ELSE /\ pipeline' = [pipeline EXCEPT !.transformer.mu = 0,
                                                !.transformer.state = popped]
                /\ gor' = [gor EXCEPT ![g].pc = "insert", ![g].terr = "nil",
                              ![g].out = tableToMap(result.tbl),
                              ![g].data = tableToMap(result.tbl)]
    /\ RouterIdle

\* Pipeline.Process: p.storage.Insert(ctx, data) and the return.
ProcessInsert(g) ==
    /\ NoPanic
    /\ gor[g].pc = "insert"
    /\ \E order \in Perms(DOMAIN gor[g].data), execFails \in BOOLEAN :
          LET o == Insert(pipeline.storage, gor[g].data, order, execFails)
          IN  /\ pipeline' = [pipeline EXCEPT !.calls =
                    Append(@, [by |-> g, data |-> gor[g].data, outcome |-> o])]
              /\ gor' = [gor EXCEPT ![g].pc = "done",
                            ![g].ret = IF o.err = "nil" THEN "nil"
                                       ELSE "failed to store data"]
    /\ RouterIdle

LegacyNext ==
    \E g \in Goroutines :
        \/ ProcessDecode(g)
        \/ TransformLock(g)
        \/ TransformGetGlobal(g)
        \/ TransformCall(g)
        \/ TransformGet(g)
        \/ ProcessInsert(g)

LegacySpec == LegacyInit /\ [][LegacyNext]_vars

-----------------------------------------------------------------------------
(* What the claims speak about.                                            *)

\* The routes whose filter matches a topic.
Matching(topic) ==
    {r \in 1..Len(routes) : topicMatches(routes[r].Filter, topic)}

\* The least of a non-empty set of route indexes.
Least(M) == CHOOSE r \in M : \A q \in M : r <= q

\* Message t waits in the queue of route r.
InQueue(t, r) == \E i \in 1..Len(queue[r]) : queue[r][i].Time = t

\* Message t was received by a worker of route r.
TakenBy(t, r) == \E w \in WorkerIds : w[1] = r /\ <<t, w>> \in taken

\* Every call of the sink: its caller and its position among the caller's.
SinkCalls == UNION {{<<p, n>> : n \in 1..Len(sink[p])} : p \in DOMAIN sink}

\* The call of the sink at a position.
SinkAt(x) == sink[x[1]][x[2]]

\* The sink calls made for message t.
SinkOf(t) == {x \in SinkCalls : SinkAt(x).msg = t}

\* cols is the canonical passthrough record of msg, column by column.
IsPassthroughRecordOf(cols, msg) ==
    /\ DOMAIN cols = {"time", "topic", "qos", "retain", "raw"}
                        \cup (IF jsonUnmarshal(msg.Payload).ok THEN {"json"} ELSE {})
    /\ cols.time = GoTime(msg.Time)
    /\ cols.topic = GoString(msg.Topic)
    /\ cols.qos = GoInt(msg.QoS)
    /\ cols.retain = GoBool(msg.Retain)
    /\ cols.raw = GoString(msg.Payload)
    /\ "json" \in DOMAIN cols => cols.json = GoJSON(jsonUnmarshal(msg.Payload).val)

\* A record passes the schema its script declares: its table has no declared
\* schema, or every column of the record is declared for it.
PassesSchema(script, table, cols) ==
    LET schema == LoadFromLuaScript(script)
    IN  table \in DOMAIN schema => ValidateRecord(schema[table], cols)

-----------------------------------------------------------------------------
(* C1: Dispatch hands a message to the first route, in declaration order,  *)
(* whose filter matches its topic: an accepted message is in that route's  *)
(* queue or with one of its workers, a refused one is nowhere, and never   *)
(* is the message in another route's queue, with another route's worker,   *)
(* or inserted by the passthrough fallback.                                *)
C1_FirstMatchingRouteOnly ==
    \A k \in 1..Len(calls) :
        LET c == calls[k]
            t == c.msg.Time
            M == Matching(c.msg.Topic)
        IN  M # {} =>
              /\ \A r \in (1..Len(routes)) \ {Least(M)} :
                    ~InQueue(t, r) /\ ~TakenBy(t, r)
              /\ \A i \in SinkOf(t) : SinkAt(i).by # Fallback
              /\ c.outcome = "ok" => InQueue(t, Least(M)) \/ TakenBy(t, Least(M))
              /\ c.outcome # "ok" => ~InQueue(t, Least(M)) /\ ~TakenBy(t, Least(M))

\* C1's case: a topic two routes match was accepted and waits in the first
\* route's queue.
C1_Witness ==
    \E k \in 1..Len(calls) :
        /\ Cardinality(Matching(calls[k].msg.Topic)) >= 2
        /\ calls[k].outcome = "ok"
        /\ InQueue(calls[k].msg.Time, Least(Matching(calls[k].msg.Topic)))

(* C2: a script worker never calls the sink's insert for a table its       *)
(* script declares a schema for with a column that is not declared for     *)
(* that table.                                                             *)
C2_NoUndeclaredColumnInserted ==
    \A i \in SinkCalls :
        (SinkAt(i).by # Fallback /\ routes[SinkAt(i).by[1]].Script # "") =>
            PassesSchema(routes[SinkAt(i).by[1]].Script, SinkAt(i).table, SinkAt(i).cols)

(* C3: schema validation is all-or-nothing per message: while a worker is  *)
(* inserting the records of one transform call, every record of that call, *)
(* the ones still to come included, passes the declared schema.            *)
C3_AllOrNothingPerMessage ==
    \A w \in WorkerIds :
        (wk[w].pc = "insert" /\ wk[w].state # "nil") =>
            \A i \in 1..Len(wk[w].recs) :
                PassesSchema(routes[w[1]].Script,
                             RecordTable(wk[w].recs[i], w), wk[w].recs[i].Columns)

-----------------------------------------------------------------------------
(* C4.  A step is a Dispatch call on a full queue when it adds a call      *)
(* whose topic has a first matching route holding QueueSize messages.      *)
DispatchOnFullQueue ==
    /\ Len(calls') = Len(calls) + 1
    /\ LET M == Matching(calls'[Len(calls')].msg.Topic)
       IN  M # {} /\ Len(queue[Least(M)]) >= routes[Least(M)].QueueSize

\* The call leaves every queue as it was, reaches no sink and does not wait.
RefusedOnTheSpot ==
    /\ queue' = queue
    /\ sink' = sink
    /\ disp'.pc = "idle"

(* C4 (as claimed): on a full queue of the first matching route Dispatch   *)
(* returns the queue-full error at once; the queues are unchanged and the  *)
(* message goes to no later route and not to the passthrough fallback.     *)
C4_QueueFullAlways ==
    [][DispatchOnFullQueue =>
          /\ calls'[Len(calls')].outcome = "queue_full"
          /\ RefusedOnTheSpot]_vars

(* C4 (amended): on a full queue of the first matching route Dispatch      *)
(* never waits, leaves the queues unchanged and passes the message to no   *)
(* later route and not to the fallback; it returns the queue-full error as *)
(* long as Close has not cancelled the router's context, afterwards the    *)
(* context-cancelled error, or it panics on the send once that queue has   *)
(* been closed.                                                            *)
C4_QueueFullWhileOpen ==
    [][DispatchOnFullQueue =>
          LET c == calls'[Len(calls')]
              r == Least(Matching(c.msg.Topic))
          IN  /\ ~ctxDone => c.outcome = "queue_full"
              /\ (ctxDone /\ ~chanClosed[r]) => c.outcome = "cancelled"
              /\ chanClosed[r] => c.outcome \in {"cancelled", "panic"}
              /\ RefusedOnTheSpot]_vars

\* C4's case: a call was refused with queue-full although a later route
\* matches the topic too.
C4_Witness ==
    \E k \in 1..Len(calls) :
        /\ calls[k].outcome = "queue_full"
        /\ Cardinality(Matching(calls[k].msg.Topic)) >= 2
        /\ Len(queue[calls[k].route]) = routes[calls[k].route].QueueSize

(* C5: after Close has returned every Dispatch call returns the            *)
(* router-closed error: it does not enqueue, does not insert through the   *)
(* passthrough fallback and does not panic, whether a route matches or not.*)
C5_DispatchAfterCloseFails ==
    [][(closer.pc = "returned" /\ Len(calls') = Len(calls) + 1) =>
          /\ calls'[Len(calls')].outcome = "cancelled"
          /\ queue' = queue
          /\ sink' = sink
          /\ ~crashed']_vars

(* C6: no accepted message is lost at shutdown: in a run in which every    *)
(* Dispatch call is made before Close is called (LiveSpec), when Close has *)
(* returned, every message Dispatch accepted on a route has been received  *)
(* by a worker and processed.                                              *)
C6_AcceptedMessagesProcessed ==
    closer.pc = "returned" =>
        \A k \in 1..Len(calls) :
            (calls[k].route # 0 /\ calls[k].outcome = "ok") =>
                /\ TakenBy(calls[k].msg.Time, calls[k].route)
                /\ \E how \in {"ok", "err"} : <<calls[k].msg.Time, how>> \in procs

(* C7: Router.Close terminates: once Close has been called, and as every   *)
(* call of the sink returns, all workers exit and Close returns, whatever  *)
(* is queued or in flight at that moment.                                  *)
C7_CloseTerminates == (closer.pc # "idle") ~> (closer.pc = "returned")

\* C7's case: Close has returned although a message accepted before it was
\* called is still in its queue.
C7_Witness ==
    /\ closer.pc = "returned"
    /\ \A w \in WorkerIds : wk[w].pc = "exited"
    /\ \E r \in 1..Len(routes) : queue[r] # <<>>

(* C8: a processing error of one message terminates neither the worker nor *)
(* the router: the step in which process reports the error puts the worker *)
(* back at its receive with its interpreter open and leaves the queues,    *)
(* the channels, the context and Dispatch as they were; a worker returns   *)
(* from run only at its receive, on the cancelled context or on the closed *)
(* and empty channel.                                                      *)
C8_ErrorKeepsWorkerRunning ==
    [][\A w \in WorkerIds :
          /\ (/\ wk[w].pc \in {"process", "result", "insert"}
              /\ <<wk[w].msg.Time, "err">> \in procs' \ procs) =>
                /\ wk'[w].pc = "recv"
                /\ wk'[w].state = wk[w].state
                /\ UNCHANGED <<queue, chanClosed, ctxDone, closer, disp, crashed>>
          /\ (wk[w].pc # "exited" /\ wk'[w].pc = "exited") =>
                /\ wk[w].pc = "recv"
                /\ ctxDone \/ (chanClosed[w[1]] /\ queue[w[1]] = <<>>)]_vars

\* C8's case: a worker reported an error for one message and afterwards
\* processed a later message of the same route without error.
C8_Witness ==
    \E w \in WorkerIds, t1, t2 \in 1..Len(calls) :
        /\ t1 < t2
        /\ <<t1, w>> \in taken /\ <<t1, "err">> \in procs
        /\ <<t2, w>> \in taken /\ <<t2, "ok">> \in procs
        /\ calls[t2].outcome = "ok"
        /\ wk[w].pc = "recv"

(* C9: a message whose topic matches no route causes exactly one call of   *)
(* the sink, by the passthrough fallback, for table iot_raw and with the   *)
(* passthrough record of that message; it is in no route's queue and with  *)
(* no worker.                                                              *)
C9_UnmatchedGoesToIotRaw ==
    \A k \in 1..Len(calls) :
        Matching(calls[k].msg.Topic) = {} =>
            /\ Cardinality(SinkOf(calls[k].msg.Time)) = 1
            /\ \A i \in SinkOf(calls[k].msg.Time) :
                  /\ SinkAt(i).by = Fallback
                  /\ SinkAt(i).table = "iot_raw"
                  /\ IsPassthroughRecordOf(SinkAt(i).cols, calls[k].msg)
            /\ \A r \in 1..Len(routes) :
                  ~InQueue(calls[k].msg.Time, r) /\ ~TakenBy(calls[k].msg.Time, r)

\* C9's case: Dispatch of an unmatched topic has returned nil.
C9_Witness ==
    \E k \in 1..Len(calls) :
        /\ Matching(calls[k].msg.Topic) = {}
        /\ calls[k].outcome = "ok"
        /\ disp.pc = "idle"

(* C10: a worker of a route without script makes exactly one call of the   *)
(* sink for every message it has received and started to process, with    *)
(* the passthrough record of the message, for the route's table, and for   *)
(* iot_raw if that table is the default iot_data.                          *)
C10_PassthroughWorkerInsertsOnce ==
    \A tw \in taken :
        LET t == tw[1]
            w == tw[2]
        IN  routes[w[1]].Script = "" =>
              IF wk[w].pc = "process" /\ wk[w].msg.Time = t
              THEN SinkOf(t) = {}
              ELSE /\ Cardinality(SinkOf(t)) = 1
                   /\ \A i \in SinkOf(t) :
                        /\ SinkAt(i).by = w
                        /\ SinkAt(i).table = IF routes[w[1]].Table = "iot_data"
                                           THEN "iot_raw" ELSE routes[w[1]].Table
                        /\ IsPassthroughRecordOf(SinkAt(i).cols, calls[t].msg)

\* C10's case: a worker without script has written a message to the table
\* its route names, and process has returned nil.
C10_Witness ==
    \E tw \in taken :
        /\ routes[tw[2][1]].Script = ""
        /\ routes[tw[2][1]].Table = "legacy_raw"
        /\ <<tw[1], "ok">> \in procs
        /\ \E i \in SinkOf(tw[1]) : SinkAt(i).table = "legacy_raw"

-----------------------------------------------------------------------------
\* The payloads that are JSON texts.
JSONTexts == {"{\"v\":1.5}", "null"}

(* C11: the passthrough record of a message has the columns time, topic,   *)
(* qos, retain and raw with the message's own values, and a json column    *)
(* if and only if the payload is a JSON text: for any other payload the    *)
(* key is absent, not present with a null value.                           *)
C11_PassthroughRecordShape ==
    (eval.fn = "buildPassthroughRecord" /\ eval.done) =>
        LET msg == eval.args[1]
            rec == eval.ret
        IN  /\ {"time", "topic", "qos", "retain", "raw"} \subseteq DOMAIN rec
            /\ DOMAIN rec \subseteq {"time", "topic", "qos", "retain", "raw", "json"}
            /\ rec.time = GoTime(msg.Time)
            /\ rec.topic = GoString(msg.Topic)
            /\ rec.qos = GoInt(msg.QoS)
            /\ rec.retain = GoBool(msg.Retain)
            /\ rec.raw = GoString(msg.Payload)
            /\ "json" \in DOMAIN rec <=> msg.Payload \in JSONTexts

\* C11's case: the record of a retained message whose payload is no JSON
\* text has been built, without json column.
C11_Witness ==
    /\ eval.fn = "buildPassthroughRecord" /\ eval.done
    /\ eval.args[1].Payload = "hello" /\ eval.args[1].Retain
    /\ "json" \notin DOMAIN eval.ret

-----------------------------------------------------------------------------
(* C12: when transform returns the empty list the message is dropped       *)
(* without error: the step in which worker.process deals with that result  *)
(* returns nil to run and calls no sink.                                   *)
C12_EmptyListIsNoError ==
    [][\A w \in WorkerIds :
          (wk[w].pc = "result" /\ wk[w].res = LArray(<<>>)
              /\ wk'[w].pc # "result") =>
                /\ wk'[w].pc = "recv"
                /\ procs' = procs \cup {<<wk[w].msg.Time, "ok">>}
                /\ sink' = sink]_vars

(* C13: when the sink returns an error for the k-th record of a message,   *)
(* process returns the error for that message only, having called the      *)
(* sink for the records 1..k and for no other; the calls made stay made,   *)
(* and no call for that message is made once process has returned.         *)
C13_SinkErrorStopsTheMessage ==
    [][/\ \A w \in WorkerIds, t \in 1..Len(calls) :
            (/\ wk[w].pc = "insert" /\ wk[w].state # "nil"
             /\ wk[w].msg.Time = t
             /\ <<t, "err">> \in procs' \ procs) =>
                /\ sink' = sink
                /\ Cardinality(SinkOf(t)) = wk[w].idx
                /\ \A x \in SinkOf(t) : x[1] = w
                /\ procs' = procs \cup {<<t, "err">>}
                /\ wk'[w].pc = "recv"
       /\ \A t \in 1..Len(calls) :
            (\E how \in {"ok", "err"} : <<t, how>> \in procs) =>
                SinkOf(t)' = SinkOf(t)]_vars

\* C13's case: the sink failed on the first of two records; process
\* returned the error and the second record was never handed to the sink.
C13_Witness ==
    \E w \in WorkerIds :
        /\ wk[w].pc = "recv" /\ wk[w].state # "nil"
        /\ <<wk[w].msg.Time, "err">> \in procs
        /\ Len(wk[w].recs) = 2 /\ wk[w].idx = 1
        /\ Cardinality(SinkOf(wk[w].msg.Time)) = 1

-----------------------------------------------------------------------------
\* The calls of the sink worker w made for message t, in the order it made
\* them.
CallsFor(w, t) == SelectSeq(sink[w], LAMBDA c : c.msg = t)

(* C14: the sink calls for the records of one transform call are made one  *)
(* per record and in the order of the returned list: at any moment the     *)
(* calls a script worker has made for its message are those for the        *)
(* records 1..idx, in that order, and all of the list once process has     *)
(* returned nil.                                                           *)
C14_InsertsInEmissionOrder ==
    \A w \in WorkerIds :
        (wk[w].state # "nil" /\ wk[w].msg.Time # 0
            /\ wk[w].pc \in {"insert", "recv", "exited"}) =>
            LET cs == CallsFor(w, wk[w].msg.Time)
            IN  /\ Len(cs) = wk[w].idx
                /\ wk[w].idx <= Len(wk[w].recs)
                /\ \A j \in 1..Len(cs) :
                      /\ cs[j].table = RecordTable(wk[w].recs[j], w)
                      /\ cs[j].cols = wk[w].recs[j].Columns
                /\ <<wk[w].msg.Time, "ok">> \in procs =>
                      wk[w].idx = Len(wk[w].recs)

\* C14's case: a script returned a sensor_data record followed by an events
\* record, and the worker has called the sink for both, in that order.
C14_Witness ==
    \E w \in WorkerIds :
        /\ wk[w].pc = "recv" /\ <<wk[w].msg.Time, "ok">> \in procs
        /\ Len(wk[w].recs) = 2
        /\ wk[w].recs[1].Table = "sensor_data" /\ wk[w].recs[2].Table = "events"
        /\ LET cs == CallsFor(w, wk[w].msg.Time)
           IN  Len(cs) = 2 /\ cs[1].table = "sensor_data" /\ cs[2].table = "events"

-----------------------------------------------------------------------------
(* C15: for every record a script worker hands to the sink, the table of   *)
(* the call is the record's table field when that field is set and is a    *)
(* valid identifier, and the route's default table in every other case.    *)
C15_TableOfEachInsert ==
    \A w \in WorkerIds :
        (wk[w].state # "nil" /\ wk[w].msg.Time # 0
            /\ wk[w].pc \in {"insert", "recv", "exited"}) =>
            LET cs == CallsFor(w, wk[w].msg.Time)
            IN  \A j \in 1..Len(cs) :
                  cs[j].table =
                      IF wk[w].recs[j].Table # ""
                            /\ validIdentifier(wk[w].recs[j].Table)
                      THEN wk[w].recs[j].Table
                      ELSE routes[w[1]].Table

-----------------------------------------------------------------------------
(* C16: on a route with one worker the messages are processed strictly in  *)
(* the order in which Dispatch accepted them: the worker receives a        *)
(* message only when process has returned for every message accepted on    *)
(* the route before it, and its sink calls for an earlier message all      *)
(* precede its calls for a later one.                                      *)
C16_SingleWorkerIsFIFO ==
    \A r \in 1..Len(routes) :
        routes[r].Workers = 1 =>
            LET w == <<r, 0>>
            IN  /\ \A i, j \in 1..Len(sink[w]) :
                      i < j => sink[w][i].msg <= sink[w][j].msg
                /\ \A t1, t2 \in 1..Len(calls) :
                      (/\ t1 < t2
                       /\ calls[t1].route = r /\ calls[t1].outcome = "ok"
                       /\ calls[t2].route = r /\ calls[t2].outcome = "ok"
                       /\ <<t2, w>> \in taken) =>
                          /\ <<t1, w>> \in taken
                          /\ \E how \in {"ok", "err"} : <<t1, how>> \in procs

\* C16's case: every message was accepted on one route with a single worker,
\* and that worker has called the sink for two of them.
C16_Witness ==
    \E r \in 1..Len(routes) :
        /\ routes[r].Workers = 1
        /\ \E i, j \in 1..Len(sink[<<r, 0>>]) :
              sink[<<r, 0>>][i].msg < sink[<<r, 0>>][j].msg
        /\ \A t \in 1..Len(calls) : calls[t].route = r /\ calls[t].outcome = "ok"

-----------------------------------------------------------------------------
\* Worker w is inside its interpreter: executeTransform has called transform
\* and still holds its result on the Lua stack, to be read by parseRecords.
InInterpreter(w) == wk[w].pc = "result"

(* C17: at no time are two callers inside the same Lua interpreter: every  *)
(* script worker holds a state of its own, and two workers that are in a   *)
(* transform call at the same time are in different states.                *)
C17_InterpreterHasOneCaller ==
    \A w1, w2 \in WorkerIds :
        /\ (w1 # w2 /\ wk[w1].state # "nil" /\ wk[w2].state # "nil") =>
                wk[w1].lua # wk[w2].lua
        /\ (w1 # w2 /\ InInterpreter(w1) /\ InInterpreter(w2)) =>
                wk[w1].lua # wk[w2].lua

\* C17's case: two workers of one route are in a transform call at the same
\* time.
C17_Witness ==
    \E w1, w2 \in WorkerIds :
        /\ w1 # w2 /\ w1[1] = w2[1]
        /\ InInterpreter(w1) /\ InInterpreter(w2)

-----------------------------------------------------------------------------
(* C18: Dispatch never blocks: a call completes in its own steps, whether  *)
(* a route matches the topic or the message falls through to the           *)
(* passthrough fallback; at no moment is a Dispatch call waiting for a     *)
(* call of the sink to return.                                             *)
C18_DispatchNeverWaits ==
    /\ disp.pc # "insert"
    /\ \A k \in 1..Len(calls) : calls[k].outcome # "pending"

-----------------------------------------------------------------------------
\* The level-by-level reading of a filter: "+" matches one level whatever it
\* is, a final "#" matches the levels that remain, any other level matches
\* the identical level only, and filter and topic end together.
RECURSIVE LevelByLevel(_, _)
LevelByLevel(F, T) ==
    IF F = <<>> THEN T = <<>>
    ELSE IF F = <<"#">> THEN TRUE
    ELSE IF T = <<>> THEN FALSE
    ELSE IF Head(F) = "+" THEN LevelByLevel(Tail(F), Tail(T))
    ELSE Head(F) = Head(T) /\ LevelByLevel(Tail(F), Tail(T))

(* C19: for all filters F and all topics T, topicMatches(F, T) is the      *)
(* level-by-level result: "+" matches exactly one level (an empty one      *)
(* too), a final "#" the remaining levels, any other level the identical   *)
(* level, and a filter without "#" only topics of as many levels.          *)
C19_TopicMatchesLevelByLevel ==
    (eval.fn = "topicMatches" /\ eval.done) =>
        eval.ret = LevelByLevel(eval.args[1], eval.args[2])

\* C19's case: "+" was matched against an empty level, between two others.
C19_Witness ==
    /\ eval.fn = "topicMatches" /\ eval.done
    /\ eval.args[1] = <<"a", "+", "b">> /\ eval.args[2] = <<"a", "", "b">>
    /\ eval.ret = TRUE

\* Filter F is the prefix P followed by "#", P being a topic itself.
IsPrefixHash(F, P) == F = Append(P, "#")

\* P is a proper prefix of topic T.
IsProperPrefix(P, T) == Len(P) < Len(T) /\ SubSeq(T, 1, Len(P)) = P

(* C20 (as claimed): a trailing "#" needs at least one remaining level:    *)
(* the filter P/# does not match the topic P itself, and matches every     *)
(* topic with further levels after P.                                      *)
C20_HashNeedsALevel ==
    (eval.fn = "topicMatches" /\ eval.done) =>
        /\ IsPrefixHash(eval.args[1], eval.args[2]) => eval.ret = FALSE
        /\ \A P \in TopicNames :
              (IsPrefixHash(eval.args[1], P) /\ IsProperPrefix(P, eval.args[2]))
                  => eval.ret = TRUE

(* C20 (amended): a trailing "#" matches the parent level as well: the     *)
(* filter P/# matches the topic P itself and every topic with further      *)
(* levels after P.                                                         *)
C20_HashMatchesParentToo ==
    (eval.fn = "topicMatches" /\ eval.done) =>
        /\ IsPrefixHash(eval.args[1], eval.args[2]) => eval.ret = TRUE
        /\ \A P \in TopicNames :
              (IsPrefixHash(eval.args[1], P) /\ IsProperPrefix(P, eval.args[2]))
                  => eval.ret = TRUE

\* C20's case: the filter a/# was matched against the topic a.
C20_Witness ==
    /\ eval.fn = "topicMatches" /\ eval.done
    /\ eval.args[1] = <<"a", "#">> /\ eval.args[2] = <<"a">>
    /\ eval.ret = TRUE

-----------------------------------------------------------------------------
\* The arguments of a call of Merge that are not nil, and those among them
\* that declare column c of table t.
Given(schemas) == {i \in 1..Len(schemas) : ~schemas[i].nil}
Declaring(schemas, t, c) ==
    {i \in Given(schemas) :
        t \in DOMAIN schemas[i].Tables /\ c \in DOMAIN schemas[i].Tables[t]}

\* No table name is in two of the arguments.
DisjointTables(schemas) ==
    \A i, j \in Given(schemas) :
        i # j => DOMAIN schemas[i].Tables \cap DOMAIN schemas[j].Tables = {}

\* The arguments in another order.
Reordered(schemas) ==
    {[i \in 1..Len(schemas) |-> schemas[p[i]]] : p \in Perms(1..Len(schemas))}

(* C21: Merge returns the union of the tables of its arguments that are    *)
(* not nil and, per table, the union of its columns; a column declared for *)
(* the same table by several arguments has the type of the first argument  *)
(* that declares it; when no table name is in two arguments the result is  *)
(* the same for every order of the arguments.                              *)
C21_MergeLeftBiasedUnion ==
    (eval.fn = "Merge" /\ eval.done) =>
        LET schemas == eval.args[1]
            merged  == eval.ret
        IN  /\ DOMAIN merged =
                 UNION {DOMAIN schemas[i].Tables : i \in Given(schemas)}
            /\ \A t \in DOMAIN merged :
                 /\ DOMAIN merged[t] =
                      UNION {DOMAIN schemas[i].Tables[t] :
                               i \in {j \in Given(schemas) :
                                        t \in DOMAIN schemas[j].Tables}}
                 /\ \A c \in DOMAIN merged[t] :
                      merged[t][c] =
                        schemas[Least(Declaring(schemas, t, c))].Tables[t][c]
            /\ DisjointTables(schemas) =>
                 \A other \in Reordered(schemas) : Merge(other) = merged

\* Merge has returned for two schemas that give one column of one table
\* different types, the second with a column the first does not have.
C21_Witness ==
    /\ eval.fn = "Merge" /\ eval.done
    /\ Len(eval.args[1]) = 2
    /\ Given(eval.args[1]) = {1, 2}
    /\ "events" \in DOMAIN eval.args[1][1].Tables
    /\ "events" \in DOMAIN eval.args[1][2].Tables
    /\ "time" \in DOMAIN eval.args[1][1].Tables["events"]
    /\ "time" \in DOMAIN eval.args[1][2].Tables["events"]
    /\ eval.args[1][1].Tables["events"]["time"]
          # eval.args[1][2].Tables["events"]["time"]
    /\ "value" \in DOMAIN eval.args[1][2].Tables["events"]
    /\ "value" \notin DOMAIN eval.args[1][1].Tables["events"]
    /\ eval.ret["events"]["time"] = eval.args[1][1].Tables["events"]["time"]

(* C22: GenerateSQL writes one CREATE TABLE IF NOT EXISTS statement per    *)
(* table, the tables in the order of their names and the columns of each   *)
(* in the order of theirs, each statement closed by ");"; a second call    *)
(* gives the same text whatever order the maps are iterated in; a schema   *)
(* without tables gives the empty string.                                  *)
C22_GenerateSQLSortedAndStable ==
    (eval.fn = "GenerateSQL" /\ eval.done) =>
        LET tables  == eval.args[1]
            text    == eval.ret[1]
            creates == {i \in 1..Len(text) :
                          text[i] = "CREATE TABLE IF NOT EXISTS "}
            cols    == {i \in 1..Len(text) : text[i] = "  "}
            stmt(i) == CHOOSE k \in creates :
                          k <= i /\ \A q \in creates : q <= i => q <= k
        IN  /\ eval.ret[2] = text
            /\ DOMAIN tables = {} => text = <<>>
            /\ Cardinality(creates) = Cardinality(DOMAIN tables)
            /\ {text[i + 1] : i \in creates} = DOMAIN tables
            /\ \A i, j \in creates : i < j => StringLess(text[i + 1], text[j + 1])
            /\ \A i \in creates :
                 {<<text[k + 1], text[k + 3]>> : k \in {q \in cols : stmt(q) = i}}
                   = {<<c, tables[text[i + 1]][c]>> :
                        c \in DOMAIN tables[text[i + 1]]}
            /\ \A i, j \in cols :
                 (i < j /\ stmt(i) = stmt(j))
                    => StringLess(text[i + 1], text[j + 1])
            /\ Cardinality({i \in 1..Len(text) : text[i] = ");"})
                 = Cardinality(creates)
            /\ \A i \in creates :
                 i = 1 \/ (i > 2 /\ text[i - 1] = "\n\n" /\ text[i - 2] = ");")
            /\ text # <<>> => text[Len(text)] = ");"

\* GenerateSQL has returned twice for a schema of two tables, one of them
\* with two columns, its maps iterated in two different orders, one of them
\* against the order of the names.
C22_Witness ==
    /\ eval.fn = "GenerateSQL" /\ eval.done
    /\ DOMAIN eval.args[1] = {"events", "sensor_data"}
    /\ DOMAIN eval.args[1]["events"] = {"time", "value"}
    /\ eval.args[2] = <<"sensor_data", "events", "value", "time">>
    /\ eval.args[3] = <<"events", "sensor_data", "time", "value">>
    /\ Len(eval.ret[1]) > 0

(* C23: ValidateRecord returns an error exactly when some key of the       *)
(* record is not a declared column of the table: a record with a subset of *)
(* the declared columns, the empty record too, is accepted, and the result *)
(* is the same for every record with the same keys, whatever its values.   *)
C23_ValidateRecordChecksKeysOnly ==
    (eval.fn = "ValidateRecord" /\ eval.done) =>
        LET tableSchema == eval.args[1]
            columns     == eval.args[2]
        IN  /\ eval.ret = (DOMAIN columns \subseteq DOMAIN tableSchema)
            /\ \A other \in RecordColumns :
                 DOMAIN other = DOMAIN columns
                    => ValidateRecord(tableSchema, other) = eval.ret

\* ValidateRecord has accepted a record with one of two declared columns.
C23_Witness ==
    /\ eval.fn = "ValidateRecord" /\ eval.done
    /\ DOMAIN eval.args[1] = {"time", "value"}
    /\ DOMAIN eval.args[2] = {"value"}
    /\ eval.ret = TRUE

-----------------------------------------------------------------------------
\* The pattern [A-Za-z_][A-Za-z0-9_]* read on the spelling of a name: a
\* letter or underscore, then letters, digits and underscores.
RECURSIVE AllWordCharacters(_)
AllWordCharacters(chars) ==
    chars = <<>> \/ (Head(chars) \in {"L", "D", "U"}
                       /\ AllWordCharacters(Tail(chars)))

MatchesIdentifierPattern(name) ==
    /\ Spelling(name) # <<>>
    /\ Head(Spelling(name)) \in {"L", "U"}
    /\ AllWordCharacters(Tail(Spelling(name)))

(* C24: Insert returns an error for an empty map and for a map with a key  *)
(* that does not match [A-Za-z_][A-Za-z0-9_]*, with and without dry-run,   *)
(* and then has built, logged and executed no statement; every column name *)
(* in a statement it builds matches the pattern.                           *)
C24_InsertRefusesBadInputFirst ==
    (eval.fn = "Insert" /\ eval.done) =>
        LET data == eval.args[2]
            bad  == \/ DOMAIN data = {}
                    \/ \E key \in DOMAIN data : ~MatchesIdentifierPattern(key)
        IN  /\ bad => /\ eval.ret.err # "nil"
                      /\ eval.ret.sql = <<>>
                      /\ ~eval.ret.logged
                      /\ ~eval.ret.executed
            /\ \A i \in 1..Len(eval.ret.sql) :
                 eval.ret.sql[i] \in InsertNames
                    => MatchesIdentifierPattern(eval.ret.sql[i])
            /\ (eval.ret.logged \/ eval.ret.executed) => eval.ret.sql # <<>>

\* Insert has refused, in dry-run mode, a map with a good column and one
\* that starts with a digit.
C24_Witness ==
    /\ eval.fn = "Insert" /\ eval.done
    /\ eval.args[1].dryRun
    /\ DOMAIN eval.args[2] = {"topic", "1st"}
    /\ eval.ret.err = "invalid column name"

-----------------------------------------------------------------------------
\* The goroutines between obtaining the transform function and having read
\* its result from the stack.
InTransform == {g \in Goroutines : gor[g].pc \in {"call", "get"}}

(* C25: of the goroutines calling Transform on the one Transformer at most *)
(* one at a time is between obtaining the function transform and reading   *)
(* its result from the stack, and with the script that marks its argument  *)
(* every call returns without error the marked copy of the data it was     *)
(* given itself.                                                           *)
C25_TransformCallsSerialised ==
    /\ Cardinality(InTransform) <= 1
    /\ \A g \in Goroutines :
         (/\ pipeline.transformer.scriptPath = "processed.lua"
          /\ gor[g].pc \in {"insert", "done"})
            => /\ gor[g].terr = "nil"
               /\ gor[g].in = SetKey(unmarshalMap(gor[g].payload).m, "topic",
                                     GoString(gor[g].topic))
                  \/ gor[g].in = [topic   |-> GoString(gor[g].topic),
                                  payload |-> GoString(gor[g].payload)]
               /\ gor[g].out = SetKey(gor[g].in, "processed", GoBool(TRUE))

\* One goroutine is about to read its result while the other, called with
\* another message, waits for the mutex.
C25_Witness ==
    /\ pipeline.transformer.scriptPath = "processed.lua"
    /\ gor[1].pc = "get"
    /\ gor[2].pc = "lock"
    /\ gor[1].in # gor[2].data
    /\ pipeline.transformer.mu = 1

-----------------------------------------------------------------------------
\* The calls of Storage.Insert that goroutine g made.
InsertsBy(g) == SelectSeq(pipeline.calls, LAMBDA c : c.by = g)

\* The payload is the text of a JSON object.
IsJSONObject(payload) ==
    jsonUnmarshal(payload).ok /\ jsonUnmarshal(payload).val # GoNil

\* Process has ended for goroutine g, one way or another.
ProcessOver(g) == gor[g].pc \in {"done", "panicked"}

(* C28: Process calls Storage.Insert at most once per message.  When it    *)
(* returns nil it has called it exactly once, with the message's topic in  *)
(* the topic column.  Without a transformer the data handed over is the    *)
(* keys of a JSON object payload and the topic, and for any other payload  *)
(* the topic and the raw text under payload.  When Transform fails Process *)
(* returns an error and has not called Storage.Insert.                     *)
C28_ProcessInsertsOnce ==
    \A g \in Goroutines :
        /\ Len(InsertsBy(g)) <= 1
        /\ gor[g].ret = "nil" =>
             /\ Len(InsertsBy(g)) = 1
             /\ InsertsBy(g)[1].data["topic"] = GoString(gor[g].topic)
        /\ (ProcessOver(g) /\ pipeline.transformer.nil) =>
             /\ Len(InsertsBy(g)) = 1
             /\ InsertsBy(g)[1].data =
                  IF IsJSONObject(gor[g].payload)
                  THEN SetKey(jsonUnmarshal(gor[g].payload).val, "topic",
                              GoString(gor[g].topic))
                  ELSE [topic   |-> GoString(gor[g].topic),
                        payload |-> GoString(gor[g].payload)]
        /\ gor[g].terr \notin {"none", "nil"} =>
             /\ gor[g].ret \notin {"none", "nil"}
             /\ Len(InsertsBy(g)) = 0

-----------------------------------------------------------------------------
\* Route r has a script that defines no global function transform.
MissingTransform(r) ==
    routes[r].Script # "" /\ ~DefinesTransform(routes[r].Script)

\* A message of route r has been given up for an error.
FailedOnce(r) == \E x \in procs : x[2] = "err" /\ TakenBy(x[1], r)

(* C26: a route whose script defines no function transform is stopped by   *)
(* the first message that shows it, if it was built at all: once one of    *)
(* its messages has failed, no worker of the route receives another.       *)
C26_MissingTransformStopsRoute ==
    [][\A w \in WorkerIds :
          (MissingTransform(w[1]) /\ FailedOnce(w[1]))
             => ~(\E t \in 1..Len(calls) : <<t, w>> \in taken' \ taken)]_vars

(* C27: the queue of a route never holds more messages than its queue_size *)
(* (100 when the configured value is not positive); a Dispatch call that   *)
(* succeeds appends its message to the queue of its route and leaves every *)
(* other queue alone; a receive of a worker takes the head off the queue   *)
(* of its route and leaves every other queue alone.                        *)
C27_QueueBoundedOneInOneOut ==
    /\ [](\E rs \in {RoutingRoutes, ScriptRoutes, PlainRoutes} :
             /\ routes = New(rs)
             /\ \A r \in 1..Len(rs) :
                  Len(queue[r]) <= IF rs[r].QueueSize <= 0 THEN 100
                                   ELSE rs[r].QueueSize)
    /\ [][/\ (Len(calls') > Len(calls) /\ calls'[Len(calls')].outcome = "ok") =>
               LET c == calls'[Len(calls')]
               IN  /\ c.route \in 1..Len(routes)
                   /\ queue' = [queue EXCEPT ![c.route] = Append(@, c.msg)]
          /\ \A w \in WorkerIds :
               (\E t \in 1..Len(calls) : <<t, w>> \in taken' \ taken) =>
                  /\ queue[w[1]] # <<>>
                  /\ queue' = [queue EXCEPT ![w[1]] = Tail(@)]
                  /\ wk'[w].msg = Head(queue[w[1]])]_vars

\* A worker of a route has received a message, and the queue of the route
\* has been filled again to its queue_size by a later Dispatch call.
C27_Witness ==
    \E r \in 1..Len(routes) :
        /\ Len(queue[r]) = routes[r].QueueSize
        /\ \E i, j \in 1..Len(calls) :
             /\ i < j
             /\ TakenBy(i, r)
             /\ calls[j].route = r /\ calls[j].outcome = "ok" /\ InQueue(j, r)

(* C29: once the shared context is cancelled no worker receives a further  *)
(* message from its queue.                                                 *)
C29_NoReceiveAfterCancel ==
    [][ctxDone => taken' = taken]_vars

(* C30: every call of the sink, by a worker of a route or by the           *)
(* passthrough fallback, is given the router's own cancellation context.   *)
C30_SinkCallsCarryRouterContext ==
    \A x \in SinkCalls : SinkAt(x).ctx = "router"

-----------------------------------------------------------------------------
\* What the call of transform gave back is malformed: an error raised, a
\* value that is not a table, or a list with an element that is not a table
\* or has no columns table.
Malformed(res) ==
    \/ res.kind \in {"raise", "nontable"}
    \/ /\ res.kind = "table"
       /\ \E i \in 1..Len(res.arr) : ~res.arr[i].isTable \/ ~res.arr[i].hasColumns

\* Worker w holds a malformed result of transform for its message.
HoldsMalformed(w) == wk[w].pc = "result" /\ Malformed(wk[w].res)

(* C31: a malformed result of transform gives no call of the sink for its  *)
(* message: while the worker holds it there is none, and the step in which *)
(* the worker deals with it makes none, reports an error for the message   *)
(* and takes the worker back to its receive.                               *)
C31_MalformedResultInsertsNothing ==
    /\ [](\A w \in WorkerIds : HoldsMalformed(w) => SinkOf(wk[w].msg.Time) = {})
    /\ [][\A w \in WorkerIds :
            (HoldsMalformed(w) /\ wk'[w] # wk[w]) =>
               /\ sink' = sink
               /\ wk'[w].pc = "recv"
               /\ procs' = procs \cup {<<wk[w].msg.Time, "err">>}]_vars

\* A worker holds, for a message it received, a list whose first element is
\* well formed and whose second is not.
C31_Witness ==
    \E w \in WorkerIds :
        /\ HoldsMalformed(w)
        /\ wk[w].res.kind = "table"
        /\ Len(wk[w].res.arr) = 2
        /\ wk[w].res.arr[1].isTable /\ wk[w].res.arr[1].hasColumns
        /\ <<wk[w].msg.Time, w>> \in taken

(* C32: every record a worker hands to the sink has at least one column    *)
(* and only columns whose names match the identifier pattern; a record     *)
(* whose columns were all dropped for their names is not handed over.      *)
C32_SinkRecordsHaveValidColumns ==
    \A x \in SinkCalls :
        SinkAt(x).by # Fallback =>
            /\ DOMAIN SinkAt(x).cols # {}
            /\ \A c \in DOMAIN SinkAt(x).cols : MatchesIdentifierPattern(c)

(* C33: New returns an error, and no router, for every list with a route   *)
(* whose table is given and does not match [A-Za-z_][A-Za-z0-9_]*; a       *)
(* route without table name gets iot_data.                                 *)
C33_NewRejectsBadTableNames ==
    (eval.fn = "New" /\ eval.done) =>
        LET rs == eval.args[1]
        IN  /\ (\E i \in 1..Len(rs) :
                  rs[i].Table # "" /\ ~MatchesIdentifierPattern(rs[i].Table))
                  => eval.ret.err /\ eval.ret.routes = <<>>
            /\ ~eval.ret.err =>
                  \A i \in 1..Len(rs) :
                      rs[i].Table = "" => eval.ret.routes[i].Table = "iot_data"

(* C38: a name the router accepts as an identifier is accepted by the      *)
(* storage as a table name and as a column name.                           *)
C38_RouterNamesPassStorage ==
    (eval.fn = "MatchString" /\ eval.done) =>
        (eval.ret.router => eval.ret.table /\ eval.ret.column)

(* C39: after Merge every table of every argument has the columns and      *)
(* types it had before, also when several arguments have the table; no     *)
(* table of the result is a table of an argument, so that a later change   *)
(* of the result changes no argument; and the result is what Merge gives.  *)
C39_MergeLeavesArgumentsAlone ==
    (eval.fn = "MergeObjects" /\ eval.done) =>
        LET schemas == eval.args[1]
        IN  /\ \A a \in InputObjects(schemas) :
                  eval.ret.heap[a] = schemas[a[1]].Tables[a[2]]
            /\ \A t \in DOMAIN eval.ret.tables :
                  eval.ret.tables[t] \notin InputObjects(schemas)
            /\ [t \in DOMAIN eval.ret.tables |-> eval.ret.heap[eval.ret.tables[t]]]
                  = Merge(schemas)

\* Merge has returned for two schemas with the same table, the second with
\* a column the first does not have.
C39_Witness ==
    /\ eval.fn = "MergeObjects" /\ eval.done
    /\ Len(eval.args[1]) = 2
    /\ ~eval.args[1][1].nil /\ ~eval.args[1][2].nil
    /\ "events" \in DOMAIN eval.args[1][1].Tables
    /\ "events" \in DOMAIN eval.args[1][2].Tables
    /\ DOMAIN eval.args[1][1].Tables["events"] = {"time"}
    /\ DOMAIN eval.args[1][2].Tables["events"] = {"time", "value"}
    /\ DOMAIN eval.ret.heap[eval.ret.tables["events"]] = {"time", "value"}

(* C34: the interpreter of a worker is closed once, in the step in which   *)
(* the worker returns from run, and before the wait group counts the       *)
(* worker; when Close has returned every worker has been counted and no    *)
(* interpreter is open.                                                    *)
C34_InterpreterClosedAtExit ==
    /\ [](\A w \in Started : wk[w].pc = "exited" => wk[w].state # "open")
    /\ [](closer.pc = "returned" =>
            /\ Started = WorkerIds
            /\ \A w \in Started : wk[w].pc = "exited" /\ wk[w].state # "open")
    /\ [][\A w \in Started :
            /\ wk[w].state # wk'[w].state =>
                  /\ wk[w].state = "open" /\ wk'[w].state = "closed"
                  /\ wk[w].pc = "recv" /\ wk'[w].pc = "deferred"
            /\ (wk[w].pc = "recv" /\ wk'[w].pc # "recv") =>
                  wk'[w].state # "open"]_vars

\* C34's case: Close has returned on a router of two routes with two
\* script workers each, and all four interpreters are closed.
C34_Witness ==
    /\ closer.pc = "returned"
    /\ Started = {<<1, 0>>, <<1, 1>>, <<2, 0>>, <<2, 1>>}
    /\ \A w \in Started : wk[w].state = "closed" /\ wk[w].pc = "exited"

(* C35: a message is received only after Dispatch has put it into the      *)
(* queue of a route, only by a worker of that route, and by one worker     *)
(* only: once received it is in no queue and no other worker holds it, and *)
(* process returns for it with one outcome.                                *)
C35_ReceivedByOneWorkerOfItsRoute ==
    \A x \in taken :
        /\ x[1] \in 1..Len(calls)
        /\ calls[x[1]].outcome = "ok" /\ calls[x[1]].route = x[2][1]
        /\ \A y \in taken : y[1] = x[1] => y = x
        /\ \A r \in 1..Len(routes) :
              \A i \in 1..Len(queue[r]) : queue[r][i].Time # x[1]
        /\ \A v \in WorkerIds : wk[v].msg.Time = x[1] => v = x[2]
        /\ ~(<<x[1], "ok">> \in procs /\ <<x[1], "err">> \in procs)

\* C35's case: two workers of one pool have each received one of two
\* messages accepted for their route.
C35_Witness ==
    \E w1, w2 \in WorkerIds :
        /\ w1 # w2 /\ w1[1] = w2[1]
        /\ <<1, w1>> \in taken /\ <<2, w2>> \in taken
        /\ calls[1].route = w1[1] /\ calls[2].route = w1[1]

(* C36: a Dispatch call that runs while Close runs never sends on a queue  *)
(* that Close has closed: the call puts the message into the open queue,   *)
(* or returns an error, and the process goes on.                           *)
C36_NoSendOnClosedQueue ==
    [][\A r \in 1..Len(routes) :
          (Len(calls') = Len(calls) + 1 /\ calls'[Len(calls')].route = r) =>
              /\ ~crashed'
              /\ calls'[Len(calls')].outcome \in {"ok", "cancelled", "queue_full"}
              /\ calls'[Len(calls')].outcome = "ok" =>
                    /\ ~chanClosed[r]
                    /\ queue'[r] = Append(queue[r], calls'[Len(calls')].msg)]_vars

(* C37: when New fails because a script cannot be loaded, it returns an    *)
(* error and no router, with the context cancelled, and every worker       *)
(* started before, for an earlier route or earlier in the same pool,       *)
(* returns from run with its interpreter closed: none stays at its         *)
(* receive.                                                                *)
C37_FailedNewStopsStartedWorkers ==
    /\ [](ctor.pc = "returned" /\ ctor.why = "script" => ctor.err /\ ctxDone)
    /\ (ctor.pc = "cancel" /\ ctor.why = "script") ~>
          /\ ctor.pc = "returned" /\ ctor.err
          /\ \A w \in Started : wk[w].pc = "exited" /\ wk[w].state # "open"

\* C37's case: New has failed at the second worker of the second route, and
\* the workers of the first route and the first worker of the second have
\* returned, each with its interpreter closed.
C37_Witness ==
    /\ ctor.pc = "returned" /\ ctor.err /\ ctor.why = "script"
    /\ ctor.i = 2 /\ ctor.j = 1
    /\ Started = {<<1, 0>>, <<1, 1>>, <<2, 0>>}
    /\ \A w \in Started : wk[w].pc = "exited" /\ wk[w].state = "closed"

====
